---- MODULE Spec2Model ----
(***************************************************************************)
(* A model of the Bloom filter of package bloom (marselester/bloom).      *)
(*                                                                         *)
(* A 64-bit word of the bit store is modelled by the set of the offsets   *)
(* (0..63) of its bits that are 1: OR is union, AND is intersection and   *)
(* the zero word is the empty set.  A float64 logarithm is modelled in    *)
(* fixed point with unit 1/LogScale; the values of math.Log are tabulated *)
(* for the probabilities the model draws.  The first 16 hex characters of *)
(* a SHA-256 digest are tabulated (from the real digests) for the         *)
(* elements the model draws.                                               *)
(***************************************************************************)
EXTENDS Integers, Sequences, FiniteSets, TLC

VARIABLES status, bf, added, last, procs, raced, calls, run

vars == <<status, bf, added, last, procs, raced, calls, run>>

(***************************************************************************)
(* Bounds of the model.                                                    *)
(***************************************************************************)
\* capacities given to New are 0..MaxN
MaxN == 10
\* a hash fault is injected at an index 0..MaxFaultIndex, or not at all
MaxFaultIndex == 1
\* the goroutines of the concurrent program make MaxCalls calls in all
MaxCalls == 3

(***************************************************************************)
(* Inputs.                                                                 *)
(***************************************************************************)
\* a float64 probability m * 10^e
Prob(m, e) == [m |-> m, e |-> e]

Probs ==
  { Prob(-1, -1), Prob(0, 0), Prob(1, -77), Prob(1, -2), Prob(1, -1),
    Prob(5, -1), Prob(9, -1), Prob(1, 0), Prob(2, 0) }

\* the byte strings given to Add and Has ("" is also the nil slice)
Elements == {"test", "", "test1"}

\* the builds whose float-to-integer conversions of out-of-range values differ
Archs == {"amd64", "arm64"}

NoFault == -1

(***************************************************************************)
(* Errors (the Error constants) and panics.                               *)
(***************************************************************************)
NilErr == "nil"
ErrZeroElements == "number of elements must be positive"
ErrProbability == "probability must be positive"
\* an error of hash.Hash.Write or strconv.ParseUint
HashFailure == "hash failure"

NoPanic == "none"
PanicDivide == "integer divide by zero"
PanicIndex == "index out of range"
PanicMakeslice == "makeslice: len out of range"

(***************************************************************************)
(* Floating point.                                                         *)
(***************************************************************************)
\* the fixed-point unit of a logarithm: math.Log(2) is 314/453 to within 2e-5
LogScale == 453

\* math.Log(prob) in units of 1/LogScale, for prob > 0
MathLog(prob) ==
  CASE prob = Prob(1, -77) -> -80316
    [] prob = Prob(1, -2)  -> -2086
    [] prob = Prob(1, -1)  -> -1043
    [] prob = Prob(5, -1)  -> -314
    [] prob = Prob(9, -1)  -> -48
    [] prob = Prob(1, 0)   -> 0
    [] prob = Prob(2, 0)   -> 314

\* math.Ceil(a / b) for b > 0
MathCeil(a, b) == -((-a) \div b)

\* prob <= 0
LeqZero(prob) == prob.m <= 0

\* byte(x) of a float64 x holding an integer: both builds convert through a
\* signed 32-bit integer and keep the low 8 bits
ByteOfFloat(x) == x % 256

\* a uint64 of 2^64 + x for a small negative x, which is at least 2^63
WrappedUint64 == 2 ^ 30

\* the longest []uint64 that make allocates: above it make panics
MaxSliceLen == 2 ^ 20

\* uint64(x) of a float64 x holding an integer.  For x < 0 the result is
\* implementation-dependent: amd64 converts as a signed integer and wraps to
\* 2^64 + x, arm64 saturates to 0.
Uint64OfFloat(x, arch) ==
  IF x >= 0 THEN x
  ELSE IF arch = "amd64" THEN WrappedUint64 ELSE 0

(***************************************************************************)
(* Capacity planning.                                                      *)
(***************************************************************************)
\* optimalBitLen without math.Ceil: the conversion truncates optLen
optimalBitLenTruncated(n, prob, arch) ==
  LET ln2 == MathLog(Prob(2, 0))
      num == -n * MathLog(prob) * LogScale
      den == ln2 * ln2
  IN  Uint64OfFloat(IF num >= 0 THEN num \div den ELSE -((-num) \div den),
                    arch)

optimalBitLen(n, prob, arch) ==
  LET ln2 == MathLog(Prob(2, 0))
      \* optLen as the fraction num / den
      num == -n * MathLog(prob) * LogScale
      den == ln2 * ln2
  IN  Uint64OfFloat(MathCeil(num, den), arch)

\* optimalHashQty with math.Round in place of math.Ceil
optimalHashQtyRounded(prob) ==
  LET num == -MathLog(prob)
      den == MathLog(Prob(2, 0))
  IN  ByteOfFloat((2 * num + den) \div (2 * den))

optimalHashQty(prob) ==
  ByteOfFloat(MathCeil(-MathLog(prob), MathLog(Prob(2, 0))))

(***************************************************************************)
(* Hashing.                                                                *)
(***************************************************************************)
\* hexdigest[:16] of sha256(element followed by the byte i), as hex digits;
\* row i + 1 is index byte i, for the 255 index bytes a byte hashqty allows
SHA256Hex16 ==
  "test" :> <<
      <<12,14,11,7,3,7,4,9,12,8,9,9,6,9,3,7>>,
      <<15,12,0,9,4,5,6,8,11,3,0,9,5,13,10,4>>,
      <<11,15,2,11,14,9,4,11,8,15,6,11,10,8,11,0>>,
      <<11,5,14,13,6,11,0,2,1,15,10,1,4,1,7,5>>,
      <<9,11,13,10,1,3,9,8,8,15,13,3,0,1,14,1>>,
      <<1,12,10,9,10,12,2,15,11,15,7,7,3,13,12,12>>,
      <<1,2,12,14,10,7,4,12,11,5,12,2,7,9,11,12>>,
      <<7,4,4,15,3,13,2,9,13,5,7,13,12,5,13,1>>,
      <<6,3,0,10,12,15,7,7,6,2,1,1,5,7,6,10>>,
      <<12,6,9,12,5,10,8,10,1,5,13,0,9,7,9,2>>,
      <<15,2,12,10,1,11,11,6,12,7,14,9,0,7,13,0>>,
      <<14,1,8,14,5,14,6,12,15,12,5,9,10,0,7,9>>,
      <<1,14,11,2,12,14,15,3,5,14,5,14,15,4,6,9>>,
      <<8,13,13,8,7,6,6,14,4,2,4,5,14,11,6,12>>,
      <<7,11,12,13,6,14,3,2,12,6,11,1,10,2,11,14>>,
      <<1,13,2,0,2,14,5,13,13,3,7,10,14,14,0,3>>,
      <<6,13,4,2,8,6,8,15,4,4,14,14,5,7,6,11>>,
      <<4,6,10,4,5,14,15,11,13,14,1,7,11,13,7,6>>,
      <<9,7,1,2,9,13,8,8,3,4,4,7,14,6,12,15>>,
      <<5,11,15,5,1,9,11,10,10,4,3,8,14,13,9,0>>,
      <<14,14,2,2,8,4,9,15,11,12,12,7,1,4,10,13>>,
      <<6,2,13,3,4,7,7,11,7,9,4,15,5,15,1,15>>,
      <<14,1,1,11,6,9,5,8,1,7,1,3,11,2,1,13>>,
      <<2,9,12,15,12,10,1,2,9,4,1,5,15,5,2,1>>,
      <<3,2,9,8,14,9,8,1,4,9,4,6,12,2,12,4>>,
      <<5,2,7,5,4,1,9,10,4,9,12,5,7,15,0,12>>,
      <<6,10,8,5,9,4,5,4,9,0,12,5,0,11,5,7>>,
      <<3,13,3,7,10,14,1,8,1,6,11,13,15,3,0,8>>,
      <<13,11,13,7,5,2,6,9,0,5,13,7,11,3,11,11>>,
      <<2,12,0,4,3,4,6,11,9,2,8,14,2,1,10,1>>,
      <<9,1,15,13,6,7,10,7,14,10,15,15,9,1,8,11>>,
      <<3,13,4,11,6,6,11,9,2,7,2,10,10,3,13,7>>,
      <<2,3,1,10,10,7,8,12,5,2,10,7,4,10,5,7>>,
      <<1,8,8,2,11,9,1,11,7,15,4,9,13,4,7,9>>,
      <<15,13,5,6,12,9,6,7,5,10,4,3,10,4,0,10>>,
      <<4,3,4,10,9,8,9,15,9,15,3,5,0,3,15,11>>,
      <<0,4,9,7,6,8,4,8,11,0,9,2,12,5,4,15>>,
      <<2,2,14,14,1,3,12,13,5,9,3,2,8,12,11,4>>,
      <<1,13,15,3,3,9,9,14,8,3,8,10,4,2,12,8>>,
      <<11,1,6,10,14,13,4,5,7,4,10,12,0,5,0,13>>,
      <<8,8,2,4,0,4,13,1,8,1,10,13,10,12,7,14>>,
      <<8,9,15,0,8,8,12,4,12,11,10,13,3,9,3,2>>,
      <<14,3,10,7,13,3,14,4,0,3,2,0,8,6,4,13>>,
      <<3,8,5,7,13,8,5,5,15,1,0,11,4,1,7,7>>,
      <<11,15,6,8,2,13,1,10,12,9,10,9,5,12,7,8>>,
      <<14,4,9,4,2,13,9,4,0,9,8,6,15,14,9,11>>,
      <<4,14,14,3,13,15,8,8,15,6,8,2,13,3,7,6>>,
      <<10,9,6,3,14,12,10,4,0,7,12,10,3,2,6,7>>,
      <<5,9,0,12,9,15,8,4,3,0,12,7,4,3,5,8>>,
      <<1,11,4,15,0,14,9,8,5,1,9,7,1,9,9,8>>,
      <<6,0,3,0,3,10,14,2,2,11,9,9,8,8,6,1>>,
      <<15,13,6,1,10,0,3,10,15,4,15,7,7,13,8,7>>,
      <<10,4,14,6,2,4,13,6,8,6,14,0,3,14,13,2>>,
      <<10,1,4,0,12,0,12,1,14,13,10,2,13,14,15,2>>,
      <<14,13,0,12,11,9,0,11,13,15,10,4,15,9,3,9>>,
      <<11,13,7,12,9,1,1,2,6,4,10,10,14,1,5,11>>,
      <<1,15,9,11,15,14,11,1,5,15,14,14,8,10,1,0>>,
      <<11,4,4,5,1,0,3,4,13,3,11,6,5,9,0,0>>,
      <<5,10,15,15,6,1,10,9,14,8,4,7,11,12,2,10>>,
      <<15,14,1,10,11,10,6,12,12,15,4,0,11,6,4,0>>,
      <<0,6,13,5,2,0,11,15,10,5,8,2,11,10,3,12>>,
      <<13,12,12,12,3,6,11,4,13,2,11,1,0,12,12,0>>,
      <<5,13,13,4,6,5,10,2,1,11,8,11,13,11,11,3>>,
      <<2,9,12,14,4,13,11,10,5,7,11,13,10,1,4,3>>,
      <<11,1,14,4,2,0,8,3,5,1,14,12,3,4,13,2>>,
      <<1,5,6,8,14,6,7,7,1,4,0,10,11,8,3,4>>,
      <<10,7,12,4,15,6,12,8,2,10,11,5,14,13,7,3>>,
      <<10,3,0,9,5,2,1,3,15,13,11,5,13,0,11,15>>,
      <<8,6,3,13,3,2,1,0,7,11,1,3,3,15,13,7>>,
      <<0,13,3,14,10,5,11,11,1,13,5,7,1,14,3,11>>,
      <<14,15,8,7,13,0,6,13,2,7,10,12,4,7,14,15>>,
      <<6,8,4,14,2,0,14,5,10,13,13,15,0,12,7,1>>,
      <<12,2,6,14,10,6,2,8,13,12,11,8,8,1,7,1>>,
      <<14,13,6,9,14,11,3,0,9,15,10,8,7,14,15,13>>,
      <<7,15,15,13,6,10,5,13,7,0,7,1,11,7,5,3>>,
      <<9,4,11,15,13,7,11,8,3,15,2,5,6,13,13,11>>,
      <<1,5,2,11,12,3,1,6,8,14,6,14,13,14,5,0>>,
      <<6,0,0,12,12,10,0,13,10,8,6,5,8,13,15,11>>,
      <<4,6,11,8,7,11,15,4,1,4,13,10,12,11,4,7>>,
      <<8,0,1,10,8,2,4,4,12,0,5,6,1,6,14,15>>,
      <<10,9,1,3,13,14,9,9,9,8,1,2,10,1,7,15>>,
      <<6,9,15,13,1,11,10,0,1,8,9,2,8,14,1,0>>,
      <<11,10,14,8,10,15,3,13,6,0,1,6,4,7,0,15>>,
      <<0,4,3,9,13,14,4,14,6,12,11,10,5,12,14,14>>,
      <<11,1,0,10,7,4,15,9,11,1,0,0,10,11,0,12>>,
      <<0,10,5,0,14,13,8,12,3,10,11,2,10,10,6,9>>,
      <<3,14,6,6,7,13,6,9,10,13,11,3,8,1,7,0>>,
      <<6,7,1,2,1,4,12,1,8,1,5,0,5,6,4,2>>,
      <<8,7,8,11,13,2,8,4,5,13,15,13,3,7,12,15>>,
      <<12,3,6,13,10,3,2,15,8,7,13,11,11,2,7,3>>,
      <<1,5,8,15,1,5,15,8,12,13,13,11,1,8,1,10>>,
      <<3,2,0,2,9,1,12,12,2,1,5,2,9,13,15,10>>,
      <<9,5,9,1,7,12,15,6,11,8,4,0,6,9,9,15>>,
      <<8,11,11,7,7,11,4,12,13,6,9,14,13,11,8,5>>,
      <<7,1,3,5,6,9,7,5,13,0,1,7,11,15,3,4>>,
      <<4,7,12,0,12,2,6,0,3,12,11,5,9,5,2,10>>,
      <<7,10,13,10,13,5,3,1,14,11,1,5,11,8,5,4>>,
      <<4,4,1,7,10,3,0,13,12,8,12,6,11,5,3,15>>,
      <<8,15,7,15,4,2,7,7,4,10,7,3,13,9,12,10>>,
      <<11,2,0,0,3,7,5,12,9,11,6,0,7,3,7,15>>,
      <<10,4,8,5,3,6,1,3,11,2,10,3,8,5,6,8>>,
      <<4,6,0,7,0,13,4,11,15,9,3,4,15,11,0,13>>,
      <<2,15,4,5,2,5,11,5,13,0,8,3,7,10,6,10>>,
      <<1,8,11,10,13,7,8,15,0,2,7,11,11,13,9,11>>,
      <<8,6,2,7,6,4,12,13,14,12,2,9,0,7,12,8>>,
      <<2,6,14,1,9,15,2,11,4,13,13,9,3,10,3,10>>,
      <<10,3,4,1,12,4,3,3,10,6,11,2,5,0,10,9>>,
      <<6,11,0,8,4,13,8,8,10,2,14,8,12,10,2,4>>,
      <<3,9,12,8,8,15,11,12,1,7,10,10,6,0,15,2>>,
      <<8,6,12,6,5,4,8,15,9,9,6,6,15,7,10,15>>,
      <<12,5,4,4,2,13,10,7,9,13,13,11,1,12,3,11>>,
      <<7,12,10,0,1,7,2,8,5,0,12,5,3,0,6,5>>,
      <<3,12,14,2,6,6,1,14,2,7,1,9,4,9,4,5>>,
      <<4,8,0,6,4,15,0,12,3,6,8,2,8,6,4,11>>,
      <<13,11,1,13,6,15,3,10,4,13,2,15,9,4,2,11>>,
      <<5,9,8,3,0,14,11,12,3,10,4,1,8,4,1,1>>,
      <<8,2,2,14,5,4,13,3,7,13,13,3,7,13,8,3>>,
      <<7,9,10,9,12,15,2,0,8,7,13,3,8,12,5,1>>,
      <<11,14,14,10,10,4,2,14,15,5,1,5,6,8,15,7>>,
      <<14,13,3,7,14,13,1,3,11,9,14,8,4,11,10,10>>,
      <<8,9,9,8,2,6,12,9,12,4,6,15,2,5,15,12>>,
      <<2,8,15,5,5,5,8,7,11,1,14,4,2,12,15,1>>,
      <<15,12,2,5,11,4,3,2,2,1,2,10,15,11,12,5>>,
      <<8,6,13,8,4,9,1,2,0,5,3,12,5,14,7,6>>,
      <<0,3,9,15,15,4,8,3,12,10,12,4,7,6,1,8>>,
      <<6,6,14,2,12,5,14,5,12,7,14,3,9,8,9,0>>,
      <<4,11,15,1,5,10,7,2,14,5,10,0,10,14,7,6>>,
      <<11,0,5,13,0,6,13,11,0,6,1,5,7,6,1,6>>,
      <<12,1,1,0,6,7,6,3,5,10,12,8,1,3,14,9>>,
      <<1,11,12,1,3,14,2,8,3,4,14,0,0,14,12,6>>,
      <<3,0,6,13,2,15,13,14,4,10,9,9,4,1,9,7>>,
      <<8,3,15,13,7,5,0,7,9,13,8,11,5,3,2,2>>,
      <<14,13,11,12,3,7,14,12,4,2,1,3,7,10,15,9>>,
      <<14,5,7,15,7,10,15,8,7,11,14,1,1,4,0,6>>,
      <<7,11,6,14,15,10,8,13,3,10,12,15,10,2,12,0>>,
      <<13,5,13,5,2,3,9,3,3,12,1,13,10,1,9,1>>,
      <<8,1,10,1,2,9,8,13,0,0,13,4,11,6,3,7>>,
      <<14,2,13,6,7,6,1,1,10,4,5,0,9,4,1,11>>,
      <<7,11,15,11,8,8,1,9,10,0,13,2,15,13,6,7>>,
      <<8,8,9,11,1,13,0,12,14,13,4,8,11,15,15,14>>,
      <<14,3,3,6,0,6,4,4,13,14,10,2,12,8,6,2>>,
      <<3,15,10,5,11,15,15,9,13,1,11,1,2,0,10,14>>,
      <<1,7,5,14,14,9,9,10,7,11,11,15,6,5,7,6>>,
      <<4,5,14,8,2,9,6,4,3,6,6,9,1,4,11,4>>,
      <<15,15,6,2,9,3,13,1,12,7,15,9,9,2,7,13>>,
      <<9,15,8,1,8,9,11,2,1,1,6,7,15,7,5,9>>,
      <<1,3,6,14,15,2,8,10,5,2,14,6,0,2,8,11>>,
      <<13,9,4,2,11,10,5,9,6,6,15,1,14,12,11,15>>,
      <<13,7,14,11,8,0,5,9,3,6,5,11,3,13,1,14>>,
      <<10,6,0,4,7,2,12,10,14,1,5,6,5,1,4,7>>,
      <<0,12,12,4,13,6,10,1,6,9,6,10,11,3,10,10>>,
      <<0,15,9,2,13,3,2,6,13,10,13,12,3,2,8,4>>,
      <<9,0,7,6,7,0,3,0,2,15,11,7,15,6,13,13>>,
      <<1,2,7,12,13,2,15,10,5,9,5,8,7,8,11,10>>,
      <<13,11,12,1,14,11,9,15,2,3,0,5,12,11,0,2>>,
      <<3,1,6,4,5,5,7,8,7,2,1,14,15,2,1,12>>,
      <<1,1,15,12,5,15,4,13,0,7,9,11,13,8,5,9>>,
      <<12,13,12,11,6,15,9,5,13,11,11,5,0,0,5,10>>,
      <<6,8,13,12,7,14,1,7,10,13,8,10,6,14,10,4>>,
      <<12,9,3,14,8,2,14,4,13,12,5,4,5,10,2,7>>,
      <<5,4,15,6,14,13,8,1,15,14,5,2,14,13,4,13>>,
      <<0,12,15,13,10,4,5,8,4,12,14,13,2,15,3,13>>,
      <<11,3,13,15,13,8,6,9,3,7,5,7,3,11,1,14>>,
      <<5,14,10,4,14,6,13,1,12,9,10,8,10,3,4,2>>,
      <<2,0,0,4,14,14,11,12,4,15,8,6,9,8,14,13>>,
      <<12,4,13,1,9,10,5,7,8,4,4,14,6,2,7,6>>,
      <<0,10,7,1,8,4,12,1,11,9,14,12,13,4,12,7>>,
      <<7,11,4,2,0,0,11,8,5,5,10,8,13,3,6,5>>,
      <<12,10,2,15,5,1,12,7,5,8,5,15,9,6,3,15>>,
      <<2,15,6,9,12,1,10,11,2,9,13,0,5,4,6,13>>,
      <<8,3,6,15,1,1,2,11,0,15,15,7,13,14,2,11>>,
      <<15,6,13,3,7,9,8,0,4,7,4,0,5,12,2,11>>,
      <<11,8,14,7,7,11,15,2,15,6,8,9,6,7,1,5>>,
      <<9,1,5,14,11,12,7,10,12,1,6,5,13,3,11,4>>,
      <<4,9,7,2,0,4,0,12,2,7,2,7,9,0,12,3>>,
      <<5,8,14,7,4,7,14,6,14,11,13,7,12,14,7,7>>,
      <<1,4,0,15,3,11,11,9,11,2,3,1,14,6,0,14>>,
      <<12,5,5,15,10,10,7,5,6,6,2,13,7,6,13,11>>,
      <<13,13,6,1,8,3,14,1,9,3,9,8,6,12,1,3>>,
      <<9,12,11,7,3,12,2,0,1,1,3,3,15,7,7,9>>,
      <<9,3,9,1,6,9,4,2,8,3,3,14,5,7,15,15>>,
      <<0,4,2,1,12,6,3,13,2,8,0,15,14,15,1,2>>,
      <<8,2,7,6,6,14,14,9,4,15,1,14,2,9,15,9>>,
      <<1,14,9,4,5,2,0,13,5,4,10,13,1,15,2,5>>,
      <<1,14,2,12,11,9,15,0,6,12,14,4,2,12,6,5>>,
      <<11,10,7,11,11,0,2,14,9,2,3,6,13,4,11,11>>,
      <<3,6,10,5,3,0,10,9,15,11,1,9,12,11,1,2>>,
      <<2,1,0,0,1,8,6,4,6,9,0,11,13,11,2,8>>,
      <<3,4,12,7,8,7,9,0,13,1,9,13,0,8,14,11>>,
      <<2,6,1,5,15,11,9,10,0,14,11,1,4,4,3,8>>,
      <<6,9,14,11,0,12,6,10,3,11,10,10,15,1,10,6>>,
      <<14,15,4,4,0,11,12,3,3,8,12,10,13,4,6,13>>,
      <<5,4,5,15,8,2,7,11,14,4,12,5,12,0,11,11>>,
      <<10,7,13,10,5,2,9,15,8,3,9,14,2,14,8,0>>,
      <<1,0,11,7,6,9,0,13,13,6,7,15,13,4,6,11>>,
      <<5,14,13,12,8,10,4,5,5,3,15,5,3,5,7,14>>,
      <<11,15,13,4,14,13,9,2,4,8,0,12,15,6,1,1>>,
      <<3,10,10,2,14,5,0,5,12,3,3,12,2,3,12,15>>,
      <<5,9,7,11,13,11,8,13,1,8,0,4,12,13,9,9>>,
      <<0,15,6,13,4,14,5,6,3,6,12,5,5,7,2,0>>,
      <<15,15,2,6,0,5,0,15,6,1,9,3,12,11,8,15>>,
      <<0,3,1,8,13,6,7,11,5,13,4,10,1,12,6,6>>,
      <<6,9,11,8,4,12,11,2,3,15,14,10,3,5,8,1>>,
      <<3,0,3,7,12,12,0,12,5,7,13,0,2,9,5,15>>,
      <<9,14,14,14,15,3,7,2,10,14,3,6,9,6,5,3>>,
      <<0,8,15,11,7,5,1,8,8,4,7,2,5,8,6,5>>,
      <<15,13,15,10,12,12,4,4,6,14,15,12,2,7,7,5>>,
      <<2,14,9,8,0,10,12,11,14,10,10,2,5,11,0,15>>,
      <<10,1,14,0,4,4,3,2,15,2,2,13,9,2,0,11>>,
      <<5,7,8,4,0,4,3,12,9,4,13,0,8,10,15,2>>,
      <<10,3,4,3,5,7,7,10,8,15,13,13,10,1,13,9>>,
      <<14,15,10,5,13,10,14,15,14,15,2,11,11,4,9,3>>,
      <<1,7,1,14,1,15,1,4,15,14,6,8,2,9,2,7>>,
      <<7,9,2,4,13,6,4,1,10,9,12,13,6,11,13,15>>,
      <<13,14,13,12,12,13,14,12,2,0,4,5,12,2,13,3>>,
      <<0,5,1,5,3,5,14,14,13,1,1,3,2,5,13,10>>,
      <<1,7,4,15,14,12,9,10,2,14,13,8,0,1,14,12>>,
      <<2,10,5,6,1,2,9,12,13,6,2,9,3,10,11,5>>,
      <<12,1,2,2,4,1,6,5,9,3,0,6,8,15,2,7>>,
      <<11,3,1,6,4,1,14,11,10,4,0,12,9,7,1,10>>,
      <<13,1,10,8,7,9,5,2,8,10,12,15,10,13,5,9>>,
      <<4,12,9,12,6,0,13,10,2,1,15,8,5,1,7,15>>,
      <<7,4,10,14,1,15,6,0,7,14,11,3,10,5,12,4>>,
      <<1,11,9,4,14,3,7,1,1,0,13,9,2,12,0,4>>,
      <<0,15,15,8,2,9,10,14,9,8,14,7,10,5,15,4>>,
      <<0,13,14,6,8,11,5,12,8,3,5,15,0,9,11,11>>,
      <<1,14,10,4,6,11,11,14,8,9,5,11,9,6,1,13>>,
      <<5,13,4,11,6,5,14,10,0,11,8,8,4,10,11,8>>,
      <<2,6,13,11,9,10,7,0,6,10,12,11,9,2,0,4>>,
      <<7,4,5,5,6,4,14,1,15,4,2,14,14,5,3,15>>,
      <<10,15,7,12,9,1,8,5,8,7,9,11,12,1,14,12>>,
      <<3,9,5,2,3,13,3,2,0,4,9,12,14,8,8,9>>,
      <<9,11,0,2,15,1,7,9,14,2,15,9,0,10,11,10>>,
      <<1,12,10,14,9,14,10,11,1,2,13,13,15,7,15,14>>,
      <<7,6,2,14,5,1,1,7,9,0,6,4,6,9,2,8>>,
      <<1,7,0,12,13,7,4,14,1,11,0,2,12,10,15,13>>,
      <<5,8,3,1,5,9,0,11,2,9,10,7,12,4,7,14>>,
      <<3,9,0,3,11,12,6,8,5,8,2,8,1,7,0,13>>,
      <<12,10,7,9,9,2,8,2,10,10,2,13,15,3,5,9>>,
      <<9,4,1,2,1,12,9,11,4,3,15,4,11,10,12,3>>,
      <<10,4,0,4,2,4,5,6,5,5,11,13,6,5,12,3>>,
      <<6,4,2,11,15,0,14,3,4,0,3,8,0,6,5,2>>,
      <<6,2,4,6,11,2,0,13,4,7,4,2,14,11,14,15>>,
      <<14,11,7,14,12,14,14,4,15,14,1,7,1,13,12,2>>,
      <<10,11,12,12,4,1,0,12,3,11,7,10,4,9,13,15>>,
      <<14,10,4,5,1,4,11,5,0,0,4,0,10,4,3,10>>,
      <<4,0,7,2,7,14,8,6,1,10,9,1,8,2,1,0>>,
      <<2,14,14,1,2,6,15,14,4,5,9,4,15,4,11,3>>,
      <<12,14,7,14,7,12,7,13,13,6,8,1,14,15,0,6>>,
      <<12,8,15,0,15,3,2,11,12,12,5,15,0,8,6,12>>,
      <<11,4,3,9,14,2,14,7,15,6,14,15,4,3,6,2>>,
      <<1,8,9,9,4,2,12,2,9,12,4,14,9,6,4,1>>,
      <<3,2,13,6,1,7,3,14,4,6,6,10,14,1,11,11>>,
      <<6,8,5,4,12,15,5,7,5,14,8,13,8,8,6,5>>,
      <<6,13,6,2,6,2,11,15,0,3,0,12,7,7,0,7>> >>
  @@ "" :> <<
      <<6,14,3,4,0,11,9,12,15,15,11,3,7,10,9,8>>,
      <<4,11,15,5,1,2,2,15,3,4,4,5,5,4,12,5>>,
      <<13,11,12,1,11,4,12,9,0,0,15,15,14,4,8,13>>,
      <<0,8,4,15,14,13,0,8,11,9,7,8,10,15,4,13>>,
      <<14,5,2,13,9,12,5,0,8,12,5,0,2,3,4,7>>,
      <<14,7,7,11,9,10,9,10,14,9,14,3,0,11,0,13>>,
      <<6,7,5,8,6,14,9,8,15,10,13,2,7,13,10,0>>,
      <<12,10,3,5,8,7,5,8,15,6,13,2,7,14,6,12>>,
      <<11,14,14,10,13,7,7,9,9,4,12,15,5,7,3,3>>,
      <<2,11,4,12,3,4,2,15,5,4,3,3,14,11,14,5>>,
      <<0,1,11,10,4,7,1,9,12,8,0,11,6,15,14,9>>,
      <<14,7,12,15,4,6,10,0,7,8,15,14,13,4,15,10>>,
      <<14,15,6,12,11,13,2,1,6,1,14,10,14,10,7,9>>,
      <<9,13,1,14,0,14,2,13,9,4,5,9,13,0,6,5>>,
      <<4,13,7,11,3,14,15,7,3,0,0,10,12,15,7,0>>,
      <<13,12,0,14,9,12,3,6,5,8,10,1,10,3,14,13>>,
      <<12,5,5,5,14,10,11,4,5,13,0,8,8,4,5,10>>,
      <<4,10,6,4,10,1,0,7,15,0,12,11,3,2,5,3>>,
      <<15,2,9,9,7,9,1,12,13,13,13,3,13,6,6,6>>,
      <<10,11,8,9,7,15,11,13,14,13,15,10,5,0,2,11>>,
      <<8,3,8,9,1,13,7,15,14,8,5,12,3,3,14,5>>,
      <<2,15,0,15,13,1,14,8,9,11,8,13,14,1,13,5>>,
      <<7,12,11,7,12,4,5,4,7,12,15,2,6,5,3,5>>,
      <<8,15,1,1,11,0,5,13,10,7,8,5,14,4,3,14>>,
      <<4,5,2,11,10,1,13,13,14,15,8,0,2,4,6,12>>,
      <<6,8,10,10,2,14,2,14,14,5,13,15,15,9,6,14>>,
      <<5,8,15,7,11,0,7,8,0,5,9,2,0,3,2,14>>,
      <<7,7,10,13,15,12,9,5,0,2,9,14,7,3,11,1>>,
      <<11,13,4,15,12,4,2,10,2,1,15,1,15,8,6,0>>,
      <<1,15,1,8,13,6,5,0,13,2,0,5,13,7,1,13>>,
      <<9,6,5,2,5,9,5,15,3,7,14,13,13,0,8,12>>,
      <<15,15,14,6,7,9,11,11,8,3,1,12,9,5,11,6>>,
      <<3,6,10,9,14,7,15,1,12,9,5,11,8,2,15,15>>,
      <<11,11,7,2,0,8,11,12,9,11,5,13,7,12,0,4>>,
      <<8,10,3,3,1,15,13,13,14,7,0,3,2,15,3,3>>,
      <<3,3,4,3,5,9,11,9,0,14,15,14,13,7,5,13>>,
      <<0,9,15,12,9,6,0,8,2,13,3,4,12,2,13,15>>,
      <<11,11,15,3,15,1,1,12,11,5,11,4,3,14,7,0>>,
      <<9,5,1,13,12,14,14,3,10,7,10,4,15,3,10,10>>,
      <<2,6,5,15,13,10,1,7,10,3,4,6,1,1,11,1>>,
      <<3,2,14,11,11,1,10,11,12,12,1,12,6,0,1,12>>,
      <<11,10,5,14,12,5,1,13,0,7,10,4,10,12,0,14>>,
      <<6,8,4,8,8,8,12,0,14,11,11,1,7,15,3,7>>,
      <<10,3,1,8,12,2,4,2,1,6,13,14,15,14,2,0>>,
      <<13,0,3,5,0,2,12,4,3,13,7,4,10,3,0,11>>,
      <<3,9,7,3,14,0,2,2,14,9,3,2,2,0,15,9>>,
      <<12,13,11,4,14,14,2,10,14,10,6,9,12,12,6,10>>,
      <<8,10,5,14,13,10,11,2,8,2,6,3,2,4,4,3>>,
      <<5,15,14,12,14,11,6,6,15,15,12,8,6,15,3,8>>,
      <<6,11,8,6,11,2,7,3,15,15,3,4,15,12,14,1>>,
      <<13,4,7,3,5,14,3,10,2,6,5,14,1,6,14,14>>,
      <<4,14,0,7,4,0,8,5,6,2,11,14,13,11,8,11>>,
      <<4,11,2,2,7,7,7,7,13,4,13,13,1,15,12,6>>,
      <<14,15,2,13,1,2,7,13,14,3,7,11,9,4,2,11>>,
      <<14,7,15,6,12,0,1,1,7,7,6,14,8,13,11,7>>,
      <<7,9,0,2,6,9,9,11,14,4,2,12,8,10,8,14>>,
      <<2,12,6,2,4,2,3,2,12,13,13,2,2,1,7,7>>,
      <<1,9,5,8,1,14,2,7,13,14,7,12,14,13,0,0>>,
      <<14,7,10,12,0,7,8,6,6,6,8,14,0,15,15,0>>,
      <<4,1,11,8,0,5,14,10,7,10,12,0,1,4,14,2>>,
      <<13,10,11,13,3,10,15,15,7,6,9,15,0,7,14,11>>,
      <<3,8,0,9,1,8,11,9,4,6,10,5,2,6,6,4>>,
      <<6,2,11,6,7,14,1,15,6,8,5,11,7,15,14,15>>,
      <<8,10,8,13,14,8,2,3,13,5,14,13,3,14,1,2>>,
      <<12,3,6,4,1,15,8,5,4,4,13,7,12,0,2,15>>,
      <<5,5,9,10,14,10,13,0,8,2,6,4,13,5,7,9>>,
      <<13,15,7,14,7,0,14,5,0,2,1,5,4,4,15,4>>,
      <<6,11,2,3,12,0,13,5,15,3,5,13,1,11,1,1>>,
      <<3,15,3,9,13,5,12,3,4,8,14,5,11,7,9,13>>,
      <<10,9,15,5,1,5,6,6,11,13,6,7,0,5,15,7>>,
      <<15,6,7,10,11,1,0,10,13,4,14,4,12,5,3,1>>,
      <<3,3,3,14,0,10,1,14,2,7,8,1,5,13,0,12>>,
      <<4,4,11,13,7,10,14,6,0,15,4,7,8,15,10,14>>,
      <<10,8,3,13,13,0,12,12,11,15,15,14,3,9,13,0>>,
      <<6,13,10,4,3,11,9,4,4,14,4,9,4,14,8,8>>,
      <<8,6,11,14,9,10,5,5,7,6,2,13,3,1,6,10>>,
      <<7,2,13,15,12,15,11,0,12,4,7,0,10,12,2,5>>,
      <<0,8,15,2,7,1,8,8,7,12,14,9,4,7,0,7>>,
      <<8,12,14,8,6,10,6,10,14,6,5,13,3,6,9,2>>,
      <<12,4,6,9,4,15,2,14,9,3,13,5,12,4,14,7>>,
      <<5,12,6,2,14,0,9,1,11,8,12,0,5,6,5,15>>,
      <<4,10,14,8,1,5,7,2,15,0,6,14,1,11,8,8>>,
      <<8,12,2,5,7,4,8,9,2,0,6,3,15,9,9,5>>,
      <<8,13,14,0,11,3,12,4,7,15,1,1,2,12,5,9>>,
      <<14,6,3,2,11,7,0,9,5,11,0,11,15,3,2,12>>,
      <<10,2,5,5,1,3,12,7,14,0,15,6,14,10,10,8>>,
      <<13,14,5,10,6,15,7,8,1,1,6,14,12,10,6,2>>,
      <<15,12,11,5,15,4,0,13,15,9,11,14,6,11,10,14>>,
      <<4,11,6,8,10,11,3,8,4,7,15,14,13,10,7,13>>,
      <<1,8,15,5,3,8,4,13,5,8,11,12,11,1,11,11>>,
      <<11,11,14,14,11,13,8,7,9,14,1,13,15,15,6,9>>,
      <<2,4,5,8,4,3,10,11,14,15,9,14,7,2,14,7>>,
      <<10,9,2,5,3,13,12,8,5,2,9,13,13,2,1,4>>,
      <<12,15,10,14,0,13,4,2,4,8,15,7,1,4,2,15>>,
      <<7,4,12,13,9,14,15,9,12,7,14,1,5,15,5,7>>,
      <<13,2,14,2,10,13,15,7,1,7,7,11,7,10,8,10>>,
      <<8,13,3,3,15,5,2,0,10,3,12,4,12,14,15,8>>,
      <<12,10,9,7,8,1,1,2,12,10,1,11,11,13,12,10>>,
      <<3,14,2,3,14,8,1,6,0,0,3,9,5,9,4,10>>,
      <<2,14,7,13,2,12,0,3,10,9,5,0,7,10,14,2>>,
      <<1,8,10,12,3,14,7,3,4,3,15,0,1,6,8,9>>,
      <<3,15,7,9,11,11,7,11,4,3,5,11,0,5,3,2>>,
      <<2,5,2,15,1,0,12,8,3,6,1,0,14,11,12,10>>,
      <<12,13,0,10,10,9,8,5,6,1,4,7,11,6,12,5>>,
      <<10,10,10,9,4,0,2,6,6,4,15,1,10,4,1,15>>,
      <<13,14,7,13,1,11,7,2,1,10,1,14,0,6,3,2>>,
      <<1,8,9,15,4,0,0,3,4,11,14,7,10,1,9,9>>,
      <<8,2,5,4,12,3,2,9,10,9,2,8,5,0,15,6>>,
      <<10,12,10,12,8,6,12,0,14,6,0,9,12,10,9,0>>,
      <<6,2,12,6,6,10,7,10,5,13,13,7,0,12,3,1>>,
      <<1,11,1,6,11,1,13,15,5,3,8,11,10,1,2,13>>,
      <<6,5,12,7,4,12,1,5,10,6,8,6,1,8,7,11>>,
      <<1,4,8,13,14,9,12,5,10,7,10,4,4,13,1,9>>,
      <<8,14,3,5,12,2,12,13,3,11,15,6,6,4,1,11>>,
      <<4,5,4,3,4,9,14,4,2,2,15,0,5,2,9,7>>,
      <<0,4,3,10,7,1,8,7,7,4,12,5,7,2,11,13>>,
      <<14,3,11,9,8,10,4,13,10,3,1,10,1,2,7,13>>,
      <<0,11,15,14,9,3,5,14,7,0,12,3,2,1,12,7>>,
      <<4,12,9,4,4,8,5,14,0,12,2,1,10,14,6,12>>,
      <<5,0,14,7,2,1,14,4,9,12,0,1,3,15,0,0>>,
      <<2,13,7,1,1,6,4,2,11,7,2,6,11,0,4,4>>,
      <<10,1,15,12,14,4,3,6,3,8,5,4,15,15,8,8>>,
      <<5,9,4,14,5,1,9,10,14,4,9,9,3,1,2,11>>,
      <<0,2,1,15,11,5,9,6,13,11,8,1,14,6,13,0>>,
      <<12,11,14,5,12,15,13,15,7,12,2,1,1,8,10,9>>,
      <<13,1,0,11,3,6,10,10,7,4,10,5,9,11,12,15>>,
      <<7,10,12,14,4,3,1,12,11,6,1,5,8,4,12,11>>,
      <<6,2,0,11,15,13,10,10,3,4,6,11,0,8,8,15>>,
      <<7,6,11,14,8,11,5,2,8,13,0,0,7,5,15,7>>,
      <<5,9,1,11,7,12,12,9,5,0,3,7,8,2,2,13>>,
      <<10,5,10,11,7,8,2,12,8,0,5,14,8,11,15,11>>,
      <<5,14,14,0,13,13,4,13,4,8,4,0,2,2,9,15>>,
      <<10,10,10,8,14,6,1,14,7,15,10,15,3,7,13,13>>,
      <<12,0,0,14,7,15,8,8,9,12,15,12,9,2,1,6>>,
      <<3,12,11,13,10,15,6,6,11,3,13,13,2,11,1,7>>,
      <<4,11,15,10,2,6,0,10,6,6,1,13,6,8,1,1>>,
      <<4,15,3,6,2,15,9,0,9,3,11,11,8,14,7,0>>,
      <<14,9,11,0,12,0,3,1,15,0,4,9,3,13,3,15>>,
      <<2,13,3,1,9,3,6,9,1,9,3,4,1,2,4,4>>,
      <<3,14,11,14,1,11,5,9,7,6,2,10,1,12,8,0>>,
      <<9,13,14,15,11,0,10,9,14,1,6,3,2,7,8,11>>,
      <<0,7,5,1,9,8,11,15,14,6,1,7,6,5,13,3>>,
      <<9,4,9,15,9,4,13,8,5,8,14,15,6,10,13,1>>,
      <<5,14,3,7,3,0,5,12,5,8,7,12,10,15,0,7>>,
      <<9,14,0,7,6,12,14,10,15,2,4,6,11,6,0,0>>,
      <<7,13,10,5,9,13,0,13,15,11,14,2,1,15,4,3>>,
      <<9,5,6,0,6,2,1,3,7,5,1,8,11,2,7,0>>,
      <<13,1,6,11,13,2,2,15,7,1,9,6,12,0,10,7>>,
      <<6,7,12,8,7,2,13,4,9,1,2,12,7,1,15,1>>,
      <<5,11,10,13,0,13,1,1,3,2,10,12,1,5,2,12>>,
      <<8,4,8,7,3,8,5,4,13,11,10,0,2,12,15,6>>,
      <<2,10,0,10,11,7,3,2,11,4,14,9,13,8,5,14>>,
      <<7,9,11,14,12,7,15,15,3,14,6,9,13,1,11,4>>,
      <<15,13,9,5,2,8,11,9,2,0,13,6,13,3,9,5>>,
      <<0,6,0,5,13,1,5,3,4,14,11,8,9,9,5,15>>,
      <<8,13,3,6,11,11,11,3,13,6,15,11,15,2,4,15>>,
      <<6,14,3,15,10,15,1,14,2,7,13,4,5,15,12,10>>,
      <<9,13,2,7,7,1,7,5,7,3,7,15,11,5,0,0>>,
      <<3,5,10,15,2,13,1,5,14,11,13,14,4,13,6,7>>,
      <<1,15,1,8,4,15,1,0,1,12,6,7,13,5,8,5>>,
      <<12,1,9,10,7,9,7,15,10,1,15,13,5,9,0,12>>,
      <<8,10,8,9,5,0,15,7,6,2,3,6,6,3,2,2>>,
      <<0,10,4,3,11,2,2,13,8,9,15,10,2,4,9,9>>,
      <<6,13,9,0,15,11,10,12,12,0,7,3,14,14,0,11>>,
      <<8,8,10,10,3,14,3,11,1,15,2,2,12,6,1,6>>,
      <<6,9,2,2,14,9,3,14,3,8,2,7,6,4,2,12>>,
      <<15,14,1,13,12,13,3,10,11,15,12,13,6,11,1,6>>,
      <<2,13,11,15,9,3,6,5,10,0,11,0,9,13,8,5>>,
      <<7,4,14,1,10,13,14,3,2,0,12,6,6,0,7,5>>,
      <<9,14,8,14,8,12,3,7,10,5,3,11,10,12,7,7>>,
      <<11,12,14,14,15,6,5,5,11,5,10,0,3,4,9,1>>,
      <<0,8,7,13,8,0,15,7,15,1,8,2,13,13,4,4>>,
      <<14,14,6,11,11,8,6,11,4,4,3,3,9,3,9,2>>,
      <<2,2,10,13,10,15,0,5,8,10,2,12,11,6,6,8>>,
      <<1,9,7,5,3,10,9,11,7,6,8,1,11,3,6,1>>,
      <<5,10,6,14,7,10,4,7,5,4,10,15,8,14,7,15>>,
      <<15,4,15,9,7,12,8,8,12,4,0,9,13,12,15,3>>,
      <<1,4,9,4,8,8,13,8,6,9,12,11,14,15,0,8>>,
      <<9,11,14,3,7,9,9,15,2,4,5,9,2,14,9,4>>,
      <<6,5,15,1,5,8,2,1,0,6,1,6,3,5,14,6>>,
      <<2,7,9,5,2,1,7,1,12,7,15,12,13,15,0,13>>,
      <<8,9,2,15,6,0,11,3,9,4,5,0,10,0,14,7>>,
      <<12,10,4,1,8,4,1,12,5,12,9,8,14,3,4,15>>,
      <<4,13,6,10,8,14,9,0,0,3,9,15,12,9,7,8>>,
      <<13,3,11,11,0,13,5,9,14,3,5,4,14,10,8,4>>,
      <<0,4,13,6,12,0,12,9,4,6,7,1,6,10,10,12>>,
      <<2,8,1,12,9,3,9,9,0,11,10,12,2,12,6,9>>,
      <<12,11,14,12,13,10,1,12,7,13,3,7,13,4,12,0>>,
      <<2,6,14,5,11,15,14,4,11,0,6,8,6,1,6,7>>,
      <<6,8,3,2,5,7,2,0,10,10,11,13,7,12,8,2>>,
      <<4,7,8,5,0,8,4,8,3,12,11,11,0,5,13,14>>,
      <<11,1,2,13,12,8,5,0,10,3,11,0,10,3,11,7>>,
      <<14,4,15,15,5,14,7,13,7,10,7,15,0,8,14,9>>,
      <<13,1,11,11,13,7,3,11,11,0,9,1,9,0,11,15>>,
      <<12,5,5,7,14,7,1,3,8,0,1,1,2,11,9,8>>,
      <<10,14,3,15,4,6,1,9,11,0,4,1,3,13,7,0>>,
      <<13,1,2,1,1,0,0,1,8,8,2,13,2,12,14,1>>,
      <<5,10,0,14,12,3,1,13,10,10,8,4,15,10,2,7>>,
      <<4,9,9,9,4,4,6,1,13,6,11,4,6,3,9,0>>,
      <<3,3,4,0,8,8,3,10,10,13,3,0,3,8,13,13>>,
      <<7,12,5,11,13,2,13,1,4,4,15,13,13,14,4,9>>,
      <<4,15,11,7,3,3,11,14,13,11,7,4,15,14,12,8>>,
      <<1,3,5,9,8,6,5,6,15,1,0,15,10,9,6,2>>,
      <<3,8,3,14,5,13,7,13,5,8,12,10,10,4,1,12>>,
      <<1,13,13,8,3,1,2,6,3,6,15,6,10,0,11,15>>,
      <<9,10,7,11,7,11,3,10,5,13,5,0,7,8,1,11>>,
      <<12,3,3,7,13,14,13,6,15,5,6,12,0,7,2,0>>,
      <<7,10,4,10,4,11,5,0,15,5,1,2,1,14,13,5>>,
      <<13,4,11,0,12,0,10,4,10,8,12,12,6,12,2,5>>,
      <<11,5,12,9,10,5,15,4,8,2,9,2,14,3,15,11>>,
      <<8,5,15,9,7,14,0,4,13,7,5,4,12,8,1,13>>,
      <<2,8,9,6,9,12,13,15,10,7,4,10,1,2,12,8>>,
      <<5,2,8,10,8,4,12,14,6,11,1,8,14,11,7,13>>,
      <<12,13,12,14,9,3,7,4,14,0,15,14,12,14,14,1>>,
      <<0,10,2,12,6,14,10,0,3,7,0,13,1,13,4,9>>,
      <<4,1,4,10,2,1,14,5,2,5,10,7,5,9,14,3>>,
      <<10,15,1,9,3,10,8,12,13,12,13,0,14,3,15,11>>,
      <<1,9,1,5,2,13,13,15,11,10,1,9,3,11,5,11>>,
      <<5,13,5,12,7,13,2,0,10,3,10,10,11,9,12,1>>,
      <<11,7,13,2,5,2,9,6,14,7,11,12,6,10,6,11>>,
      <<15,11,9,5,10,10,9,8,13,6,14,6,12,5,8,2>>,
      <<2,7,9,5,0,4,4,12,14,0,15,8,3,15,7,1>>,
      <<7,9,4,1,12,11,0,7,9,2,4,15,13,12,7,11>>,
      <<2,14,10,9,7,0,15,15,6,3,10,14,12,5,13,7>>,
      <<7,13,8,12,5,13,10,7,15,13,4,1,8,3,7,9>>,
      <<15,0,3,1,14,15,10,5,8,7,4,4,14,9,7,10>>,
      <<3,0,10,5,11,15,10,5,8,14,1,2,8,10,15,9>>,
      <<4,5,7,14,4,8,5,4,8,6,3,14,7,14,15,10>>,
      <<5,14,1,14,15,15,14,9,11,7,11,10,11,7,3,13>>,
      <<10,11,6,1,11,10,1,1,10,3,8,11,0,0,7,15>>,
      <<0,10,3,10,10,14,14,7,12,12,15,11,1,10,6,4>>,
      <<13,0,7,5,2,11,6,0,10,13,11,1,4,8,12,10>>,
      <<14,6,15,2,0,7,5,0,9,10,15,10,3,9,0,8>>,
      <<13,14,2,14,3,3,1,13,8,9,1,10,14,2,6,7>>,
      <<3,10,13,4,14,4,4,10,4,3,0,6,15,11,6,2>>,
      <<15,8,13,2,0,14,5,9,8,13,15,2,0,8,7,7>>,
      <<4,5,15,8,3,13,1,7,14,1,0,11,3,4,15,12>>,
      <<15,3,13,15,1,15,9,12,3,5,8,10,14,8,14,12>>,
      <<9,4,4,5,5,14,3,14,13,9,15,7,1,6,11,14>>,
      <<4,13,4,13,7,5,13,7,4,2,8,6,3,10,11,9>>,
      <<15,13,14,5,0,2,8,5,8,3,0,6,12,2,3,5>>,
      <<13,4,15,0,9,14,5,12,5,10,15,9,9,10,2,4>>,
      <<9,6,6,12,7,12,4,7,1,2,5,12,7,4,5,7>>,
      <<7,8,2,14,0,2,0,2,9,3,7,4,5,2,7,11>>,
      <<2,0,1,7,15,15,3,4,6,1,3,9,5,6,7,2>>,
      <<2,7,10,11,13,14,13,13,15,14,8,5,0,3,4,9>>,
      <<11,0,11,2,9,8,8,11,6,11,11,14,7,2,4,11>>,
      <<5,0,8,6,8,15,2,0,2,5,8,11,11,12,9,12>>,
      <<14,5,9,6,10,8,14,5,12,4,9,13,13,2,0,10>>,
      <<13,5,2,0,2,2,5,3,4,15,10,2,13,11,10,3>>,
      <<10,10,7,2,2,5,14,7,13,5,11,0,10,2,5,5>>,
      <<0,4,11,8,13,3,4,14,2,0,14,6,0,4,12,10>>,
      <<9,8,7,2,2,14,2,14,11,14,13,8,14,13,3,13>>,
      <<3,14,1,5,1,4,0,9,10,12,14,9,1,12,11,3>>,
      <<10,10,6,8,7,11,5,8,11,0,14,7,3,14,2,14>> >>
  @@ "test1" :> <<
      <<7,13,9,1,13,3,5,13,9,2,0,12,8,4,7,7>>,
      <<1,15,0,2,13,6,4,0,8,7,14,4,12,0,1,1>>,
      <<15,11,6,6,3,1,4,10,3,8,2,0,7,1,13,1>>,
      <<14,14,13,6,6,9,1,8,3,2,6,13,2,11,0,1>>,
      <<2,6,4,15,1,10,7,11,1,5,3,12,5,3,6,8>>,
      <<14,9,4,14,11,1,8,14,9,3,6,7,9,12,11,15>>,
      <<12,2,12,4,8,9,4,5,9,6,10,12,8,0,5,10>>,
      <<12,1,10,1,4,15,5,0,13,5,11,15,13,7,4,2>>,
      <<13,6,9,13,5,13,6,10,11,14,1,2,14,8,7,0>>,
      <<12,15,11,10,13,9,15,10,8,7,14,9,5,7,5,6>>,
      <<6,3,4,11,0,2,7,11,1,11,6,9,14,1,2,4>>,
      <<10,14,11,6,10,8,5,12,3,11,4,8,1,0,10,14>>,
      <<5,9,13,7,15,14,5,8,5,12,2,3,3,3,9,6>>,
      <<11,3,8,9,5,4,10,11,14,7,0,3,14,13,4,6>>,
      <<3,9,1,11,15,2,1,10,10,5,10,5,7,4,7,12>>,
      <<6,2,12,9,5,7,8,13,10,11,4,15,4,4,12,0>>,
      <<11,6,8,4,6,10,6,11,0,11,11,10,9,10,3,8>>,
      <<14,7,2,14,12,13,10,5,1,12,15,9,12,4,1,8>>,
      <<10,12,4,9,7,1,4,0,7,8,12,1,11,12,14,2>>,
      <<14,15,1,12,5,4,2,0,5,14,5,5,14,9,3,12>>,
      <<1,7,15,15,0,0,5,11,12,15,6,6,14,7,5,15>>,
      <<1,4,7,2,2,15,13,13,3,6,0,6,9,14,12,15>>,
      <<2,14,10,5,13,11,5,9,8,2,2,1,1,4,0,2>>,
      <<15,15,12,8,15,14,5,5,7,8,6,13,13,10,15,13>>,
      <<1,9,15,0,8,0,2,9,10,14,11,13,10,15,2,2>>,
      <<4,9,6,9,15,5,8,12,13,15,3,5,9,7,12,4>>,
      <<12,3,14,1,5,2,4,5,10,14,15,2,3,8,13,8>>,
      <<3,7,5,3,10,2,13,6,1,3,3,4,4,8,6,3>>,
      <<12,15,1,8,11,3,12,1,4,3,2,9,12,13,5,5>>,
      <<15,14,8,14,12,13,11,13,3,14,4,3,9,11,12,8>>,
      <<6,11,3,2,1,14,8,12,11,5,5,13,11,7,1,9>>,
      <<8,8,11,1,12,2,10,7,11,4,6,8,4,10,3,9>>,
      <<7,15,1,12,5,4,4,6,7,7,9,14,3,11,11,9>>,
      <<7,12,4,10,7,11,6,7,6,14,8,7,3,11,4,9>>,
      <<8,13,14,10,15,5,7,14,10,5,6,13,0,14,15,6>>,
      <<11,14,2,15,4,14,0,2,11,0,15,4,3,7,13,10>>,
      <<13,4,15,11,0,9,14,1,6,3,0,8,7,7,11,5>>,
      <<2,6,4,2,10,1,14,0,0,5,8,11,10,3,14,5>>,
      <<5,7,10,3,14,4,12,7,8,9,8,4,12,11,15,9>>,
      <<11,3,12,2,1,2,0,1,5,8,2,7,5,5,8,15>>,
      <<1,8,8,3,7,7,7,8,4,7,4,15,5,10,3,2>>,
      <<14,11,3,8,5,7,11,3,10,0,3,13,11,8,14,0>>,
      <<6,5,1,6,6,6,12,8,5,8,11,14,1,13,14,8>>,
      <<0,9,12,5,9,2,10,0,10,15,1,15,13,4,3,7>>,
      <<3,10,3,10,5,8,8,15,8,11,7,6,5,4,11,15>>,
      <<3,9,0,4,13,6,2,13,5,12,10,10,6,7,9,5>>,
      <<10,1,1,15,9,4,3,10,13,3,9,11,0,5,11,0>>,
      <<2,8,13,12,9,15,10,2,1,12,2,6,4,15,8,12>>,
      <<14,12,2,7,3,8,15,14,11,2,11,11,11,0,11,12>>,
      <<7,4,4,14,10,9,14,12,6,15,10,0,10,8,3,14>>,
      <<10,9,8,14,12,5,12,5,0,4,4,8,0,0,12,8>>,
      <<1,6,6,15,11,7,8,15,0,15,4,4,13,2,7,1>>,
      <<4,0,12,12,10,5,12,12,1,3,10,11,15,9,1,12>>,
      <<14,11,11,3,9,11,3,4,2,11,10,14,10,13,7,10>>,
      <<8,15,15,13,0,6,3,11,9,3,10,2,9,15,8,4>>,
      <<8,1,3,14,4,1,13,4,0,9,2,6,5,6,7,1>>,
      <<11,3,12,0,14,5,15,14,11,14,1,14,12,8,8,7>>,
      <<8,4,0,11,1,11,15,5,5,0,10,8,7,3,10,1>>,
      <<2,15,14,5,9,15,5,6,11,2,14,1,12,13,9,6>>,
      <<11,10,4,2,0,8,2,5,14,3,6,11,2,7,11,9>>,
      <<3,3,11,7,9,6,2,4,5,2,6,2,14,9,3,11>>,
      <<6,13,12,14,4,9,15,3,12,12,4,10,9,13,8,5>>,
      <<3,13,6,5,3,15,7,2,15,6,3,2,10,6,2,14>>,
      <<14,4,8,15,2,1,3,11,13,5,11,10,3,7,9,11>>,
      <<14,15,3,7,8,0,8,2,7,12,12,4,14,11,3,8>>,
      <<3,13,0,6,0,2,3,14,11,0,10,4,3,13,6,9>>,
      <<11,7,2,7,5,15,3,5,0,14,5,4,12,1,3,15>>,
      <<6,8,11,14,15,3,6,3,0,13,8,12,7,5,15,14>>,
      <<14,7,11,0,3,7,10,8,12,15,5,9,9,7,4,2>>,
      <<15,13,8,9,14,7,11,6,10,13,13,1,7,10,14,3>>,
      <<8,6,6,12,3,8,0,5,5,2,0,1,9,3,14,6>>,
      <<2,9,6,11,7,7,9,4,15,8,0,9,12,8,4,0>>,
      <<0,13,15,0,7,14,9,0,14,11,2,10,15,0,10,9>>,
      <<3,9,1,12,8,0,12,8,11,12,1,7,4,1,13,9>>,
      <<4,3,14,7,15,15,5,9,9,6,2,10,1,13,13,10>>,
      <<11,0,11,7,5,11,15,2,7,15,14,5,7,13,7,3>>,
      <<8,9,7,8,4,3,4,12,13,4,12,11,9,5,0,3>>,
      <<10,5,2,8,11,7,5,2,15,9,10,3,1,15,12,11>>,
      <<9,8,8,7,2,9,6,5,7,12,7,10,11,0,9,2>>,
      <<7,13,8,0,5,0,14,10,8,4,1,15,11,11,3,13>>,
      <<5,4,13,10,2,2,11,8,12,7,7,13,4,12,9,10>>,
      <<0,15,2,9,13,1,9,3,1,4,9,8,12,0,14,5>>,
      <<0,11,9,11,5,8,8,6,2,2,10,3,6,15,7,15>>,
      <<13,7,15,13,7,3,4,13,12,5,3,12,3,6,13,13>>,
      <<10,14,5,13,9,12,10,13,14,13,5,11,7,5,10,4>>,
      <<5,3,9,5,3,11,13,13,0,5,12,12,11,11,6,7>>,
      <<8,14,15,9,11,7,0,3,2,11,3,11,2,0,7,14>>,
      <<2,15,7,8,14,1,10,6,1,2,5,5,6,1,3,12>>,
      <<14,10,15,0,7,12,13,5,0,5,9,4,9,13,5,15>>,
      <<5,4,7,3,1,12,6,7,4,10,6,5,6,1,10,15>>,
      <<0,5,14,0,7,12,2,7,6,9,11,10,14,12,8,9>>,
      <<2,4,8,10,7,2,11,8,10,8,12,13,10,15,15,1>>,
      <<11,6,12,8,5,13,1,4,5,12,2,12,3,9,9,2>>,
      <<13,10,11,10,15,13,7,2,8,15,6,0,10,3,6,15>>,
      <<12,13,4,1,15,0,14,5,7,1,5,9,4,15,15,14>>,
      <<4,12,11,10,14,10,4,5,2,7,9,6,15,6,14,7>>,
      <<3,2,2,9,11,14,9,9,0,7,5,10,8,9,1,1>>,
      <<4,5,2,2,9,12,11,0,10,11,11,8,3,3,9,11>>,
      <<15,7,0,9,8,9,12,2,9,7,14,6,8,1,11,2>>,
      <<10,8,10,2,5,1,7,9,11,12,6,0,8,5,6,3>>,
      <<2,3,0,15,6,7,6,7,14,2,11,9,0,8,6,7>>,
      <<1,1,11,11,15,8,14,4,15,0,15,7,13,5,12,1>>,
      <<2,9,1,3,3,10,0,3,0,14,10,8,9,5,12,9>>,
      <<1,0,4,13,8,3,3,12,10,7,6,1,10,2,10,11>>,
      <<14,10,14,5,5,15,11,1,7,0,6,13,15,13,11,0>>,
      <<2,11,15,12,2,9,3,8,6,2,11,8,1,12,3,6>>,
      <<9,10,3,6,10,15,6,14,5,12,6,2,5,7,8,13>>,
      <<11,13,13,6,6,4,5,10,3,0,0,3,4,0,11,11>>,
      <<13,5,3,4,8,11,3,6,10,11,9,13,1,9,12,9>>,
      <<9,14,10,11,4,8,3,2,3,9,11,0,3,7,12,0>>,
      <<1,11,4,6,2,8,0,4,3,9,5,2,14,6,13,12>>,
      <<14,1,13,11,10,7,1,10,7,13,1,13,11,3,10,11>>,
      <<5,8,0,12,7,8,15,1,15,4,6,11,5,3,3,6>>,
      <<10,13,9,3,15,2,14,9,7,6,13,6,0,14,8,0>>,
      <<0,5,7,2,2,14,3,13,14,2,15,4,10,9,8,5>>,
      <<8,4,10,3,7,4,10,0,0,13,15,9,8,1,2,15>>,
      <<1,10,6,7,7,7,11,3,13,13,9,14,12,9,14,10>>,
      <<2,9,5,6,6,13,4,5,15,4,8,14,12,11,15,9>>,
      <<1,4,6,11,10,9,13,1,5,6,4,7,11,7,1,10>>,
      <<13,10,11,9,8,6,9,12,8,15,7,0,3,4,12,8>>,
      <<15,12,2,15,4,8,8,5,3,12,6,7,0,13,10,0>>,
      <<12,4,15,2,8,4,5,5,13,3,9,5,6,7,1,15>>,
      <<8,14,5,3,14,15,10,10,4,15,7,15,14,6,8,1>>,
      <<8,15,9,4,7,13,5,1,14,13,11,3,1,9,3,3>>,
      <<12,1,3,5,12,12,15,5,14,5,15,3,13,11,5,7>>,
      <<9,14,4,5,11,5,2,11,12,0,0,14,9,4,5,8>>,
      <<6,5,15,0,13,3,1,0,14,6,14,7,2,9,15,7>>,
      <<0,2,15,9,10,14,14,3,10,13,5,14,10,4,7,4>>,
      <<1,0,1,1,5,15,2,12,4,9,6,7,4,3,4,4>>,
      <<11,11,6,9,3,9,4,15,6,3,0,9,7,13,11,7>>,
      <<7,9,12,5,2,11,6,6,4,4,12,2,1,3,4,5>>,
      <<7,1,3,6,5,9,1,10,13,13,6,8,15,3,2,7>>,
      <<13,1,0,1,1,9,2,10,7,0,12,6,8,10,12,3>>,
      <<13,14,13,11,2,10,15,13,12,7,9,12,3,12,4,1>>,
      <<10,14,2,4,6,2,5,9,14,10,7,4,8,2,7,13>>,
      <<0,10,0,3,15,14,13,1,5,13,15,14,0,4,13,9>>,
      <<14,11,7,14,1,8,6,12,6,1,2,1,11,0,1,13>>,
      <<8,7,4,14,8,0,9,13,4,2,13,11,9,1,4,5>>,
      <<6,7,4,2,6,0,3,4,7,3,1,0,11,3,3,1>>,
      <<15,11,1,9,2,7,9,5,13,1,7,11,15,15,3,6>>,
      <<3,15,1,2,13,4,0,6,0,6,0,6,4,11,7,4>>,
      <<2,4,0,12,5,10,6,0,11,7,3,7,5,7,12,1>>,
      <<10,1,5,6,8,5,13,5,3,13,7,4,15,13,10,9>>,
      <<9,0,11,8,3,3,2,6,13,8,5,15,1,6,8,10>>,
      <<14,12,13,8,5,10,3,2,4,13,12,8,1,9,15,8>>,
      <<0,0,14,11,8,1,3,10,11,4,14,10,4,9,13,8>>,
      <<6,6,8,9,0,10,2,3,7,9,6,8,3,4,6,12>>,
      <<1,1,14,1,13,0,2,3,7,13,10,9,7,9,0,6>>,
      <<2,1,14,5,10,3,13,11,13,14,5,9,11,4,0,7>>,
      <<4,6,4,0,15,3,8,14,2,8,12,5,14,15,2,9>>,
      <<9,8,0,15,9,11,7,11,5,15,2,14,3,15,6,11>>,
      <<3,10,9,1,0,1,3,0,2,8,15,15,14,15,11,0>>,
      <<1,5,3,10,10,6,11,14,1,2,9,14,8,9,4,0>>,
      <<4,1,0,9,15,13,9,9,1,15,14,5,8,5,12,11>>,
      <<12,3,14,9,10,11,3,13,5,9,2,4,14,15,11,7>>,
      <<9,5,2,5,7,7,14,8,8,1,3,7,5,9,6,9>>,
      <<3,9,15,14,10,13,10,11,12,13,13,7,10,13,5,2>>,
      <<1,2,4,0,5,4,8,11,15,12,9,11,15,5,5,13>>,
      <<0,5,8,1,8,6,3,8,9,7,9,12,9,1,8,15>>,
      <<9,7,10,11,13,5,12,4,4,13,1,13,13,13,13,1>>,
      <<1,13,0,4,3,11,14,5,12,4,8,4,9,0,5,14>>,
      <<4,8,14,14,11,3,7,8,9,5,10,1,15,1,8,2>>,
      <<11,9,11,7,4,11,11,10,8,15,6,11,6,3,8,7>>,
      <<6,11,3,4,2,8,15,2,4,4,15,0,13,13,7,15>>,
      <<0,3,2,13,15,13,1,7,0,12,2,11,9,9,0,0>>,
      <<9,3,3,1,10,6,10,10,8,9,1,13,0,11,10,15>>,
      <<14,15,9,9,4,15,4,13,12,7,15,4,14,2,7,8>>,
      <<7,15,5,15,1,0,9,9,13,13,13,7,12,7,8,6>>,
      <<7,1,1,1,10,7,7,1,5,3,4,4,10,5,15,10>>,
      <<15,3,3,10,0,7,1,7,13,1,3,10,6,12,11,11>>,
      <<0,0,9,14,13,3,13,14,12,4,7,9,1,5,3,12>>,
      <<6,5,13,4,10,13,5,8,14,4,14,7,7,5,14,14>>,
      <<6,4,6,13,10,9,4,1,8,0,8,5,15,8,5,0>>,
      <<14,13,11,2,2,12,12,5,12,14,4,9,7,7,14,6>>,
      <<0,6,1,15,2,2,12,5,12,5,5,15,1,14,1,15>>,
      <<11,1,14,4,0,14,5,9,6,6,2,9,7,1,4,9>>,
      <<14,5,11,14,8,4,0,1,9,8,5,10,4,3,12,11>>,
      <<4,11,14,9,4,1,14,13,15,15,10,1,14,14,6,9>>,
      <<7,12,14,9,6,8,13,14,3,1,0,13,1,11,3,10>>,
      <<11,8,7,12,0,5,15,3,1,14,8,11,1,2,10,9>>,
      <<1,3,0,10,5,3,13,6,8,11,1,3,10,7,2,8>>,
      <<7,5,12,2,12,14,9,7,7,15,8,12,8,11,11,11>>,
      <<13,4,15,12,13,10,13,6,0,6,13,1,0,13,9,5>>,
      <<13,6,4,12,6,2,4,4,9,13,8,3,9,3,15,2>>,
      <<9,4,4,14,13,9,15,7,10,5,14,1,11,8,7,13>>,
      <<5,3,4,12,13,11,7,2,2,11,11,7,9,13,4,6>>,
      <<1,12,13,9,11,1,1,1,10,11,11,3,9,10,10,15>>,
      <<1,9,14,14,9,14,4,9,11,4,0,8,6,13,1,11>>,
      <<5,0,4,13,7,12,14,2,9,5,4,11,13,15,8,10>>,
      <<2,14,7,14,1,12,13,9,14,13,3,5,9,11,1,0>>,
      <<6,12,6,4,1,9,7,14,5,7,11,3,6,10,7,6>>,
      <<4,11,15,14,8,3,8,14,2,11,3,15,11,1,7,1>>,
      <<14,5,8,6,0,0,7,5,5,4,15,5,0,1,8,6>>,
      <<14,7,8,3,14,3,6,9,8,6,1,4,14,3,10,11>>,
      <<2,1,12,10,13,0,2,7,7,1,1,4,2,0,2,12>>,
      <<11,0,1,1,5,6,13,6,4,3,7,1,3,7,3,0>>,
      <<1,15,13,10,5,6,12,0,11,7,12,5,14,11,9,10>>,
      <<8,12,2,14,2,14,1,5,0,8,2,5,13,4,11,3>>,
      <<1,11,9,3,7,7,6,12,1,10,8,14,5,13,1,13>>,
      <<6,14,1,15,10,6,8,7,15,8,8,0,3,2,0,0>>,
      <<7,15,2,10,6,14,2,5,4,5,6,7,15,4,15,7>>,
      <<8,0,0,7,12,0,3,14,4,5,9,2,5,6,1,11>>,
      <<4,9,4,13,5,5,2,10,4,11,6,2,5,12,3,7>>,
      <<5,1,5,13,7,14,11,9,7,0,0,0,0,12,14,6>>,
      <<7,0,14,8,10,9,3,15,4,10,10,1,0,11,15,0>>,
      <<3,15,1,3,13,5,14,13,7,13,13,3,3,10,2,9>>,
      <<11,9,9,14,8,15,9,2,10,4,8,6,4,13,12,12>>,
      <<11,8,10,11,7,1,10,3,15,3,10,1,13,12,10,1>>,
      <<2,1,5,11,8,10,15,8,7,0,9,1,7,1,7,9>>,
      <<11,4,8,1,0,9,0,6,4,2,6,9,3,15,15,2>>,
      <<6,11,14,9,12,4,0,14,2,14,5,8,10,5,11,9>>,
      <<6,11,7,8,3,11,8,5,5,5,7,8,3,0,14,15>>,
      <<3,0,1,2,9,7,14,15,9,4,1,8,8,11,1,1>>,
      <<11,11,15,8,11,12,1,15,11,5,6,9,3,9,13,15>>,
      <<11,13,10,6,7,14,2,6,6,12,7,0,12,8,10,3>>,
      <<8,10,1,7,5,2,5,6,7,6,4,2,14,13,15,8>>,
      <<6,2,3,12,9,11,13,9,15,14,11,10,5,8,5,6>>,
      <<13,13,10,6,4,4,1,2,3,14,3,9,10,1,14,2>>,
      <<12,12,13,15,0,11,4,1,4,15,5,14,0,12,9,5>>,
      <<3,0,10,4,6,7,3,8,2,2,12,1,6,2,6,9>>,
      <<11,9,7,10,0,4,9,8,14,14,0,7,10,5,11,6>>,
      <<10,10,14,12,0,8,15,9,0,0,1,0,10,0,3,11>>,
      <<5,15,8,1,3,7,1,13,15,1,10,12,3,2,1,9>>,
      <<3,4,3,11,0,4,14,12,6,9,1,5,8,6,13,12>>,
      <<14,11,1,1,15,3,15,12,11,14,6,1,2,5,9,1>>,
      <<9,4,0,14,1,14,4,13,2,5,12,8,14,9,4,10>>,
      <<6,14,14,3,8,12,1,15,11,10,0,3,15,15,0,2>>,
      <<14,8,7,4,2,6,0,11,10,11,11,4,4,13,6,7>>,
      <<8,14,2,10,8,10,5,1,6,2,15,0,12,11,1,0>>,
      <<3,5,1,4,14,13,12,11,8,9,14,8,4,7,14,4>>,
      <<12,14,0,13,4,0,5,15,5,6,15,14,13,0,10,5>>,
      <<5,14,11,0,12,5,9,14,6,4,14,3,0,11,1,4>>,
      <<0,6,13,8,14,15,12,15,3,10,3,0,12,13,5,11>>,
      <<12,12,2,10,1,11,9,10,2,1,9,0,4,0,4,4>>,
      <<13,0,12,1,9,8,0,13,1,1,7,7,0,10,5,14>>,
      <<0,12,4,9,14,6,10,11,14,5,2,12,11,1,8,10>>,
      <<15,13,11,7,7,11,1,11,0,10,10,10,2,14,3,11>>,
      <<14,11,7,6,9,1,7,4,9,6,1,12,3,9,7,2>>,
      <<9,2,1,5,0,8,9,15,9,8,5,2,5,14,1,4>>,
      <<10,1,6,6,14,10,3,11,11,6,4,10,0,3,1,4>>,
      <<13,15,6,10,12,10,7,2,9,14,14,5,9,1,3,4>>,
      <<4,13,6,15,4,13,3,9,11,0,0,1,15,12,5,2>>,
      <<11,6,12,13,1,10,11,3,15,12,0,2,0,0,9,2>>,
      <<8,11,4,13,13,13,3,14,10,12,6,13,2,14,13,13>>,
      <<8,0,11,2,0,5,14,10,12,6,7,11,7,13,15,1>>,
      <<6,10,2,9,14,4,14,6,12,14,12,8,14,1,6,2>>,
      <<6,7,4,13,15,3,13,8,8,11,13,14,12,15,11,1>>,
      <<15,12,14,14,3,2,6,13,12,4,6,10,14,2,12,11>>,
      <<8,8,12,15,1,11,0,8,14,5,10,3,1,6,2,11>>,
      <<7,14,5,10,12,3,11,5,8,13,7,1,7,3,13,13>>,
      <<0,15,5,13,4,6,9,4,8,10,7,6,7,11,8,11>>,
      <<4,11,15,5,7,2,11,4,10,10,13,2,11,1,7,7>>,
      <<12,14,2,8,12,10,8,4,6,15,6,12,9,7,10,8>>,
      <<9,5,15,4,9,2,6,9,8,11,13,2,5,12,0,12>>,
      <<1,13,9,0,3,0,7,1,8,2,15,4,14,15,0,12>> >>

\* strconv.ParseUint(digits, 16, 64) % bitlen, for bitlen > 0: the base-16
\* number is reduced digit by digit, which gives the same remainder
RECURSIVE ParseUintMod(_, _, _)
ParseUintMod(digits, k, bitlen) ==
  IF k = 0 THEN 0
  ELSE (ParseUintMod(digits, k - 1, bitlen) * 16 + digits[k]) % bitlen

\* hash(b, bitlen) for b = element followed by the byte i; faulty: Write or
\* ParseUint returns an error
hash(element, i, bitlen, faulty) ==
  IF faulty THEN [v |-> 0, err |-> HashFailure, panic |-> NoPanic]
  ELSE IF bitlen = 0 THEN [v |-> 0, err |-> NilErr, panic |-> PanicDivide]
  ELSE [v |-> ParseUintMod(SHA256Hex16[element][i + 1], 16, bitlen),
        err |-> NilErr, panic |-> NoPanic]

\* the loop of bitpositions from index i on; pos holds hashqty entries
RECURSIVE bitpositionsLoop(_, _, _, _, _, _)
bitpositionsLoop(element, hashqty, bitlen, fault, i, pos) ==
  IF i >= hashqty THEN [pos |-> pos, err |-> NilErr, panic |-> NoPanic]
  ELSE LET h == hash(element, i, bitlen, fault = i)
       IN  IF h.panic # NoPanic
             THEN [pos |-> pos, err |-> NilErr, panic |-> h.panic]
           ELSE IF h.err # NilErr
             THEN [pos |-> [pos EXCEPT ![i + 1] = h.v], err |-> h.err,
                   panic |-> NoPanic]
           \* i++ of a byte
           ELSE bitpositionsLoop(element, hashqty, bitlen, fault,
                                 (i + 1) % 256, [pos EXCEPT ![i + 1] = h.v])

bitpositions(element, hashqty, bitlen, fault) ==
  bitpositionsLoop(element, hashqty, bitlen, fault, 0,
                   [k \in 1..hashqty |-> 0])

(***************************************************************************)
(* Bit addressing.                                                         *)
(***************************************************************************)
\* bitlocation with the index rounded up
bitlocationOffByOne(p, bitsize) ==
  LET size == IF bitsize = 0 THEN 8 ELSE bitsize
      index == p \div size
  IN  [index |-> index + 1, offset |-> (p - index * size) % 256]

bitlocation(p, bitsize) ==
  LET size == IF bitsize = 0 THEN 8 ELSE bitsize
      index == p \div size
      offset == p - index * size
  IN  [index |-> index, offset |-> offset % 256]

\* A uint64 too large for a number of the model is the sequence of its four
\* 16-bit limbs, the most significant first.
Limb == 65536

\* the number a uint64 below 2^31 stands for
ValueOf(x) == x[3] * Limb + x[4]

\* p / d in uint64, for a divisor 0 < d < 2^8: long division by limbs
DivUint64(p, d) ==
  LET t1 == p[1]
      t2 == (t1 % d) * Limb + p[2]
      t3 == (t2 % d) * Limb + p[3]
      t4 == (t3 % d) * Limb + p[4]
  IN  <<t1 \div d, t2 \div d, t3 \div d, t4 \div d>>

\* a * d in uint64 (mod 2^64), for d < 2^8
MulUint64(a, d) ==
  LET m4 == a[4] * d
      m3 == a[3] * d + m4 \div Limb
      m2 == a[2] * d + m3 \div Limb
      m1 == a[1] * d + m2 \div Limb
  IN  <<m1 % Limb, m2 % Limb, m3 % Limb, m4 % Limb>>

\* a - b in uint64 (mod 2^64)
SubUint64(a, b) ==
  LET s4 == a[4] - b[4]
      s3 == a[3] - b[3] - (IF s4 < 0 THEN 1 ELSE 0)
      s2 == a[2] - b[2] - (IF s3 < 0 THEN 1 ELSE 0)
      s1 == a[1] - b[1] - (IF s2 < 0 THEN 1 ELSE 0)
  IN  <<s1 % Limb, s2 % Limb, s3 % Limb, s4 % Limb>>

\* the sizes in bits of an int: 64 on amd64 and arm64, 32 on a 32-bit build
IntSizes == {32, 64}

\* int(x) of a uint64 x: the low intbits bits of x taken as a signed number,
\* which is bits when not negative and bits - 2^intbits when negative
IntOfUint64(x, intbits) ==
  IF intbits = 64
    THEN [negative |-> x[1] >= Limb \div 2, bits |-> x]
  ELSE [negative |-> x[3] >= Limb \div 2, bits |-> <<0, 0, x[3], x[4]>>]

\* byte(x) of a uint64 x
ByteOfUint64(x) == x[4] % 256

\* bitlocation with 64 in place of 8 as the default bucket size
bitlocationUint64Default64(p, bitsize, intbits) ==
  LET size == IF bitsize = 0 THEN 64 ELSE bitsize
      index == DivUint64(p, size)
      offset == SubUint64(p, MulUint64(index, size))
  IN  [index |-> IntOfUint64(index, intbits), offset |-> ByteOfUint64(offset)]

\* bitlocation(p, bitsize) for every uint64 p, on a build with ints of
\* intbits bits
bitlocationUint64(p, bitsize, intbits) ==
  LET size == IF bitsize = 0 THEN 8 ELSE bitsize
      index == DivUint64(p, size)
      offset == SubUint64(p, MulUint64(index, size))
  IN  [index |-> IntOfUint64(index, intbits), offset |-> ByteOfUint64(offset)]

\* 1 << (offset + 1) in place of 1 << offset
MaskShifted(offset) == IF offset + 1 < 64 THEN {offset + 1} ELSE {}

\* 1 << offset in a uint64
Mask(offset) == IF offset < 64 THEN {offset} ELSE {}

\* bitstore[index] = mask in place of |=
OrWordAssigned(word, mask) == mask

\* bitstore[index] ^= mask in place of |=
OrWordToggled(word, mask) == (word \ mask) \cup (mask \ word)

\* bitstore[index] | mask
OrWord(word, mask) == word \cup mask

\* bitstore[index] & mask
AndWord(word, mask) == word \cap mask

(***************************************************************************)
(* The filter.                                                             *)
(***************************************************************************)
\* the Filter that a nil *Filter stands for
NilFilter ==
  [n |-> 0, prob |-> Prob(0, 0), bitlen |-> 0, hashqty |-> 0,
   bitstore |-> <<>>]

\* New without the buckets++ for a last, partly used bucket
NewFloorBuckets(n, prob, arch) ==
  IF n = 0
    THEN [f |-> NilFilter, err |-> ErrZeroElements, panic |-> NoPanic]
  ELSE IF LeqZero(prob)
    THEN [f |-> NilFilter, err |-> ErrProbability, panic |-> NoPanic]
  ELSE
    LET hashqty == optimalHashQty(prob)
        bitlen == optimalBitLen(n, prob, arch)
        buckets == bitlen \div 64
    IN  IF buckets > MaxSliceLen
          THEN [f |-> NilFilter, err |-> NilErr, panic |-> PanicMakeslice]
        ELSE [f |-> [n |-> n, prob |-> prob, bitlen |-> bitlen,
                     hashqty |-> hashqty,
                     bitstore |-> [k \in 1..buckets |-> {}]],
              err |-> NilErr, panic |-> NoPanic]

\* New with the two validations in the other order
NewProbabilityFirst(n, prob, arch) ==
  IF LeqZero(prob)
    THEN [f |-> NilFilter, err |-> ErrProbability, panic |-> NoPanic]
  ELSE IF n = 0
    THEN [f |-> NilFilter, err |-> ErrZeroElements, panic |-> NoPanic]
  ELSE
    LET hashqty == optimalHashQty(prob)
        bitlen == optimalBitLen(n, prob, arch)
        buckets == IF bitlen % 64 # 0 THEN bitlen \div 64 + 1
                   ELSE bitlen \div 64
    IN  IF buckets > MaxSliceLen
          THEN [f |-> NilFilter, err |-> NilErr, panic |-> PanicMakeslice]
        ELSE [f |-> [n |-> n, prob |-> prob, bitlen |-> bitlen,
                     hashqty |-> hashqty,
                     bitstore |-> [k \in 1..buckets |-> {}]],
              err |-> NilErr, panic |-> NoPanic]

New(n, prob, arch) ==
  IF n = 0
    THEN [f |-> NilFilter, err |-> ErrZeroElements, panic |-> NoPanic]
  ELSE IF LeqZero(prob)
    THEN [f |-> NilFilter, err |-> ErrProbability, panic |-> NoPanic]
  ELSE
    LET hashqty == optimalHashQty(prob)
        bitlen == optimalBitLen(n, prob, arch)
        buckets == IF bitlen % 64 # 0 THEN bitlen \div 64 + 1
                   ELSE bitlen \div 64
    IN  IF buckets > MaxSliceLen
          THEN [f |-> NilFilter, err |-> NilErr, panic |-> PanicMakeslice]
        ELSE [f |-> [n |-> n, prob |-> prob, bitlen |-> bitlen,
                     hashqty |-> hashqty,
                     bitstore |-> [k \in 1..buckets |-> {}]],
              err |-> NilErr, panic |-> NoPanic]

\* the range loop of Add from pos[k] on
RECURSIVE AddLoop(_, _, _)
AddLoop(bitstore, pos, k) ==
  IF k > Len(pos) THEN [bitstore |-> bitstore, panic |-> NoPanic]
  ELSE LET loc == bitlocation(pos[k], 64)
           mask == Mask(loc.offset)
       IN  IF loc.index >= Len(bitstore)
             THEN [bitstore |-> bitstore, panic |-> PanicIndex]
           ELSE AddLoop([bitstore EXCEPT
                           ![loc.index + 1] = OrWord(@, mask)], pos, k + 1)

ErrFull == "filter is full"

\* Add that refuses an element once n elements have been added
AddCapped(f, element, fault) ==
  LET r == bitpositions(element, f.hashqty, f.bitlen, fault)
  IN  IF Cardinality(added) >= f.n
        THEN [bitstore |-> f.bitstore, err |-> ErrFull, panic |-> NoPanic]
      ELSE IF r.panic # NoPanic
        THEN [bitstore |-> f.bitstore, err |-> NilErr, panic |-> r.panic]
      ELSE IF r.err # NilErr
        THEN [bitstore |-> f.bitstore, err |-> r.err, panic |-> NoPanic]
      ELSE LET w == AddLoop(f.bitstore, r.pos, 1)
           IN  [bitstore |-> w.bitstore, err |-> NilErr, panic |-> w.panic]

\* Add with the range loop before the test of err
AddPartial(f, element, fault) ==
  LET r == bitpositions(element, f.hashqty, f.bitlen, fault)
  IN  IF r.panic # NoPanic
        THEN [bitstore |-> f.bitstore, err |-> NilErr, panic |-> r.panic]
      ELSE LET w == AddLoop(f.bitstore, r.pos, 1)
           IN  [bitstore |-> w.bitstore, err |-> r.err, panic |-> w.panic]

\* bf.Add(element): the error returned, the panic raised and the bit store
\* it leaves
Add(f, element, fault) ==
  LET r == bitpositions(element, f.hashqty, f.bitlen, fault)
  IN  IF r.panic # NoPanic
        THEN [bitstore |-> f.bitstore, err |-> NilErr, panic |-> r.panic]
      ELSE IF r.err # NilErr
        THEN [bitstore |-> f.bitstore, err |-> r.err, panic |-> NoPanic]
      ELSE LET w == AddLoop(f.bitstore, r.pos, 1)
           IN  [bitstore |-> w.bitstore, err |-> NilErr, panic |-> w.panic]

\* the range loop of Has with return true inside the loop
HasLoopFirstOnly(bitstore, pos, k) ==
  IF k > Len(pos) THEN [ok |-> TRUE, panic |-> NoPanic]
  ELSE LET loc == bitlocation(pos[k], 64)
           mask == Mask(loc.offset)
       IN  IF loc.index >= Len(bitstore)
             THEN [ok |-> FALSE, panic |-> PanicIndex]
           ELSE IF AndWord(bitstore[loc.index + 1], mask) = {}
             THEN [ok |-> FALSE, panic |-> NoPanic]
           ELSE [ok |-> TRUE, panic |-> NoPanic]

\* the range loop of Has from pos[k] on
RECURSIVE HasLoop(_, _, _)
HasLoop(bitstore, pos, k) ==
  IF k > Len(pos) THEN [ok |-> TRUE, panic |-> NoPanic]
  ELSE LET loc == bitlocation(pos[k], 64)
           mask == Mask(loc.offset)
       IN  IF loc.index >= Len(bitstore)
             THEN [ok |-> FALSE, panic |-> PanicIndex]
           ELSE IF AndWord(bitstore[loc.index + 1], mask) = {}
             THEN [ok |-> FALSE, panic |-> NoPanic]
           ELSE HasLoop(bitstore, pos, k + 1)

\* Has that sets the bits it finds clear before it reports them
HasWriting(f, element, fault) ==
  LET r == bitpositions(element, f.hashqty, f.bitlen, fault)
  IN  IF r.panic # NoPanic
        THEN [ok |-> FALSE, err |-> NilErr, panic |-> r.panic,
              bitstore |-> f.bitstore]
      ELSE IF r.err # NilErr
        THEN [ok |-> FALSE, err |-> r.err, panic |-> NoPanic,
              bitstore |-> f.bitstore]
      ELSE LET w == HasLoop(f.bitstore, r.pos, 1)
           IN  [ok |-> w.ok, err |-> NilErr, panic |-> w.panic,
                bitstore |-> AddLoop(f.bitstore, r.pos, 1).bitstore]

\* bf.Has(element): the result and error returned, the panic raised and the
\* bit store it leaves
Has(f, element, fault) ==
  LET r == bitpositions(element, f.hashqty, f.bitlen, fault)
  IN  IF r.panic # NoPanic
        THEN [ok |-> FALSE, err |-> NilErr, panic |-> r.panic,
              bitstore |-> f.bitstore]
      ELSE IF r.err # NilErr
        THEN [ok |-> FALSE, err |-> r.err, panic |-> NoPanic,
              bitstore |-> f.bitstore]
      ELSE LET w == HasLoop(f.bitstore, r.pos, 1)
           IN  [ok |-> w.ok, err |-> NilErr, panic |-> w.panic,
                bitstore |-> f.bitstore]

\* MustAdd that drops the error of Add
MustAddIgnoring(f, element, fault) ==
  LET r == Add(f, element, fault)
  IN  [bitstore |-> r.bitstore, err |-> NilErr, panic |-> r.panic]

\* bf.MustAdd(element)
MustAdd(f, element, fault) ==
  LET r == Add(f, element, fault)
  IN  IF r.err # NilErr
        THEN [bitstore |-> r.bitstore, err |-> NilErr, panic |-> r.err]
      ELSE r

\* bf.MustHave(element)
MustHave(f, element, fault) ==
  LET r == Has(f, element, fault)
  IN  IF r.err # NilErr
        THEN [ok |-> FALSE, err |-> NilErr, panic |-> r.err,
              bitstore |-> r.bitstore]
      ELSE r

(***************************************************************************)
(* The sequential program: one caller, one operation at a time.           *)
(***************************************************************************)
\* the hash faults that can be injected into an operation on f
Faults(f) == {NoFault} \cup {i \in 0..MaxFaultIndex : i < f.hashqty}

Call(op, n, prob, element, fault, ok, err, panic) ==
  [op |-> op, n |-> n, prob |-> prob, element |-> element, fault |-> fault,
   ok |-> ok, err |-> err, panic |-> panic]

NoCall == Call("none", 0, Prob(0, 0), "", NoFault, FALSE, NilErr, NoPanic)

\* a goroutine that runs no operation
Idle ==
  [pc |-> "idle", op |-> "none", element |-> "", pos |-> <<>>, k |-> 0,
   word |-> {}, ok |-> FALSE, pre |-> <<>>, overlapped |-> FALSE]

Goroutines == {1, 2}

\* bitpositions has not been called directly
NoRun == [fn |-> "none", pc |-> "return"]

Init ==
  /\ status = "start"
  /\ bf = NilFilter
  /\ added = {}
  /\ last = NoCall
  /\ procs = [g \in Goroutines |-> Idle]
  /\ raced = FALSE
  /\ calls = 0
  /\ run = NoRun

StatusAfter(panic) == IF panic # NoPanic THEN "panicked" ELSE "ready"

DoNew(n, prob, arch) ==
  /\ status = "start"
  /\ \E r \in {New(n, prob, arch)} :
       /\ bf' = r.f
       /\ status' = IF r.panic # NoPanic THEN "panicked"
                    ELSE IF r.err # NilErr THEN "failed" ELSE "ready"
       /\ last' = Call("New", n, prob, "", NoFault, FALSE, r.err, r.panic)
  /\ UNCHANGED <<added, procs, raced, calls, run>>

DoAdd(element, fault) ==
  /\ status = "ready"
  /\ \E r \in {Add(bf, element, fault)} :
       /\ bf' = [bf EXCEPT !.bitstore = r.bitstore]
       /\ status' = StatusAfter(r.panic)
       /\ added' = IF r.err = NilErr /\ r.panic = NoPanic
                     THEN added \cup {element} ELSE added
       /\ last' = Call("Add", bf.n, bf.prob, element, fault, FALSE, r.err,
                       r.panic)
  /\ UNCHANGED <<procs, raced, calls, run>>

DoHas(element, fault) ==
  /\ status = "ready"
  /\ \E r \in {Has(bf, element, fault)} :
       /\ bf' = [bf EXCEPT !.bitstore = r.bitstore]
       /\ status' = StatusAfter(r.panic)
       /\ last' = Call("Has", bf.n, bf.prob, element, fault, r.ok, r.err,
                       r.panic)
  /\ UNCHANGED <<added, procs, raced, calls, run>>

DoMustAdd(element, fault) ==
  /\ status = "ready"
  /\ \E r \in {MustAdd(bf, element, fault)} :
       /\ bf' = [bf EXCEPT !.bitstore = r.bitstore]
       /\ status' = StatusAfter(r.panic)
       /\ added' = IF r.panic = NoPanic THEN added \cup {element} ELSE added
       /\ last' = Call("MustAdd", bf.n, bf.prob, element, fault, FALSE,
                       r.err, r.panic)
  /\ UNCHANGED <<procs, raced, calls, run>>

DoMustHave(element, fault) ==
  /\ status = "ready"
  /\ \E r \in {MustHave(bf, element, fault)} :
       /\ bf' = [bf EXCEPT !.bitstore = r.bitstore]
       /\ status' = StatusAfter(r.panic)
       /\ last' = Call("MustHave", bf.n, bf.prob, element, fault, r.ok,
                       r.err, r.panic)
  /\ UNCHANGED <<added, procs, raced, calls, run>>

Next ==
  \/ \E n \in 0..MaxN, prob \in Probs, arch \in Archs : DoNew(n, prob, arch)
  \/ \E element \in Elements, fault \in Faults(bf) : DoAdd(element, fault)
  \/ \E element \in Elements, fault \in Faults(bf) : DoHas(element, fault)
  \/ \E element \in Elements, fault \in Faults(bf) : DoMustAdd(element, fault)
  \/ \E element \in Elements, fault \in Faults(bf) : DoMustHave(element, fault)

Spec == Init /\ [][Next]_vars

(***************************************************************************)
(* The concurrent program: goroutines call Add and Has on one filter with  *)
(* no synchronisation.  bitstore[index] |= mask is a load of the word and  *)
(* a store of the word; each access of the bit store is one step.          *)
(***************************************************************************)
\* goroutine g is inside a call of Add
InAdd(g) == procs[g].op = "Add" /\ procs[g].pc \in {"load", "store"}

\* g takes the result of its last call, if any, and calls bf.Add(element):
\* bitpositions, up to the range loop
GoAdd(g, element) ==
  /\ status = "ready"
  /\ procs[g].pc \in {"idle", "done"}
  /\ calls < MaxCalls
  /\ calls' = calls + 1
  /\ \E r \in {bitpositions(element, bf.hashqty, bf.bitlen, NoFault)} :
       IF r.panic # NoPanic
         THEN /\ status' = "panicked"
              /\ UNCHANGED <<procs, added, raced>>
       ELSE
         /\ procs' = [h \in Goroutines |->
              IF h = g
                THEN [pc |-> IF Len(r.pos) = 0 THEN "done" ELSE "load",
                      op |-> "Add", element |-> element, pos |-> r.pos,
                      k |-> IF Len(r.pos) = 0 THEN 0 ELSE 1,
                      word |-> {}, ok |-> FALSE,
                      pre |-> <<>>, overlapped |-> FALSE]
              ELSE IF procs[h].pc = "test" /\ Len(r.pos) > 0
                THEN [procs[h] EXCEPT !.overlapped = TRUE]
              ELSE procs[h]]
         /\ added' = IF Len(r.pos) = 0 THEN added \cup {element} ELSE added
         /\ raced' = (raced \/ (Len(r.pos) > 0
                                /\ \E o \in Goroutines \ {g} : InAdd(o)))
         /\ UNCHANGED status
  /\ UNCHANGED <<bf, last, run>>

\* the load of bf.bitstore[index] |= mask
AddLoad(g) ==
  /\ status = "ready"
  /\ procs[g].pc = "load"
  /\ LET loc == bitlocation(procs[g].pos[procs[g].k], 64)
     IN  IF loc.index >= Len(bf.bitstore)
           THEN /\ status' = "panicked"
                /\ UNCHANGED procs
         ELSE /\ procs' = [procs EXCEPT ![g].pc = "store",
                             ![g].word = bf.bitstore[loc.index + 1]]
              /\ UNCHANGED status
  /\ UNCHANGED <<bf, added, last, raced, calls, run>>

\* the store of bf.bitstore[index] |= mask, and the return after the last one
AddStore(g) ==
  /\ status = "ready"
  /\ procs[g].pc = "store"
  /\ LET loc == bitlocation(procs[g].pos[procs[g].k], 64)
         mask == Mask(loc.offset)
         return == procs[g].k = Len(procs[g].pos)
     IN  /\ bf' = [bf EXCEPT !.bitstore[loc.index + 1] =
                     OrWord(procs[g].word, mask)]
         /\ procs' = [procs EXCEPT ![g] =
              IF return
                THEN [@ EXCEPT !.pc = "done", !.pos = <<>>, !.k = 0,
                               !.word = {}]
              ELSE [@ EXCEPT !.pc = "load", !.k = @ + 1, !.word = {}]]
         /\ added' = IF return THEN added \cup {procs[g].element} ELSE added
  /\ UNCHANGED <<status, last, raced, calls, run>>

\* g takes the result of its last call, if any, and calls bf.Has(element):
\* bitpositions, up to the range loop
GoHas(g, element) ==
  /\ status = "ready"
  /\ procs[g].pc \in {"idle", "done"}
  /\ calls < MaxCalls
  /\ calls' = calls + 1
  /\ \E r \in {bitpositions(element, bf.hashqty, bf.bitlen, NoFault)} :
       IF r.panic # NoPanic
         THEN /\ status' = "panicked"
              /\ UNCHANGED procs
       ELSE
         /\ procs' = [procs EXCEPT ![g] =
              [pc |-> IF Len(r.pos) = 0 THEN "done" ELSE "test",
               op |-> "Has", element |-> element, pos |-> r.pos,
               k |-> IF Len(r.pos) = 0 THEN 0 ELSE 1,
               word |-> {}, ok |-> Len(r.pos) = 0, pre |-> bf.bitstore,
               overlapped |-> \E o \in Goroutines \ {g} : InAdd(o)]]
         /\ UNCHANGED status
  /\ UNCHANGED <<bf, added, last, raced, run>>

\* a turn of the range loop of Has with |= in place of &
HasTestWriting(g) ==
  /\ status = "ready"
  /\ procs[g].pc = "test"
  /\ LET loc == bitlocation(procs[g].pos[procs[g].k], 64)
         mask == Mask(loc.offset)
         found == AndWord(bf.bitstore[loc.index + 1], mask) # {}
     IN  /\ loc.index < Len(bf.bitstore)
         /\ bf' = [bf EXCEPT !.bitstore[loc.index + 1] = OrWord(@, mask)]
         /\ procs' = [procs EXCEPT ![g] =
              IF ~found
                THEN [@ EXCEPT !.pc = "done", !.ok = FALSE,
                               !.pos = <<>>, !.k = 0]
              ELSE IF procs[g].k = Len(procs[g].pos)
                THEN [@ EXCEPT !.pc = "done", !.ok = TRUE,
                               !.pos = <<>>, !.k = 0]
              ELSE [@ EXCEPT !.k = @ + 1]]
  /\ UNCHANGED <<status, added, last, raced, calls, run>>

\* one turn of the range loop of Has, and the return
HasTest(g) ==
  /\ status = "ready"
  /\ procs[g].pc = "test"
  /\ LET loc == bitlocation(procs[g].pos[procs[g].k], 64)
         mask == Mask(loc.offset)
     IN  IF loc.index >= Len(bf.bitstore)
           THEN /\ status' = "panicked"
                /\ UNCHANGED procs
         ELSE /\ procs' = [procs EXCEPT ![g] =
                   IF AndWord(bf.bitstore[loc.index + 1], mask) = {}
                     THEN [@ EXCEPT !.pc = "done", !.ok = FALSE,
                                    !.pos = <<>>, !.k = 0]
                   ELSE IF procs[g].k = Len(procs[g].pos)
                     THEN [@ EXCEPT !.pc = "done", !.ok = TRUE,
                                    !.pos = <<>>, !.k = 0]
                   ELSE [@ EXCEPT !.k = @ + 1]]
              /\ UNCHANGED status
  /\ UNCHANGED <<bf, added, last, raced, calls, run>>

\* the filters of the concurrent program
ConcCapacities == {MaxN}
ConcProbs == {Prob(5, -1), Prob(1, -1)}

NextConc ==
  \/ \E n \in ConcCapacities, prob \in ConcProbs, arch \in Archs :
       DoNew(n, prob, arch)
  \/ \E g \in Goroutines, element \in Elements : GoAdd(g, element)
  \/ \E g \in Goroutines : AddLoad(g)
  \/ \E g \in Goroutines : AddStore(g)
  \/ \E g \in Goroutines, element \in Elements : GoHas(g, element)
  \/ \E g \in Goroutines : HasTest(g)

SpecConc == Init /\ [][NextConc]_vars

(***************************************************************************)
(* The position derivation on its own: bitpositions called directly, as   *)
(* the tests of the package call it, one turn of its loop at a step, with  *)
(* everything it returns kept in run.                                      *)
(***************************************************************************)
\* the hash counts given to bitpositions (a byte)
HashQtys == {0, 1, 2, 4, 7, 255}

\* the bit lengths given to bitpositions
BitLens == {0, 1, 5, 48, 64, 68, 1000000}

\* the call of bitpositions, up to the loop: pos := make([]uint64, hashqty)
CallBitpositions(element, hashqty, bitlen, fault) ==
  /\ run.pc \in {"return", "panicked"}
  /\ run' = [fn |-> "bitpositions", pc |-> "loop", element |-> element,
             hashqty |-> hashqty, bitlen |-> bitlen, fault |-> fault,
             i |-> 0, pos |-> [k \in 1..hashqty |-> 0], err |-> NilErr,
             panic |-> NoPanic]
  /\ UNCHANGED <<status, bf, added, last, procs, raced, calls>>

\* the loop that goes on after an error of hash (no break)
IterBitpositionsContinuing ==
  /\ run.fn = "bitpositions" /\ run.pc = "loop"
  /\ IF run.i >= run.hashqty
       THEN run' = [run EXCEPT !.pc = "return"]
     ELSE \E h \in {hash(run.element, run.i, run.bitlen, run.fault = run.i)} :
       IF h.panic # NoPanic
         THEN run' = [run EXCEPT !.pc = "panicked", !.panic = h.panic]
       ELSE run' = [run EXCEPT !.pos[run.i + 1] = h.v,
                               !.err = IF h.err # NilErr THEN h.err ELSE @,
                               !.i = (@ + 1) % 256]
  /\ UNCHANGED <<status, bf, added, last, procs, raced, calls>>

\* the loop without b[len(element)] = i: every turn hashes index byte 0
IterBitpositionsSameByte ==
  /\ run.fn = "bitpositions" /\ run.pc = "loop"
  /\ IF run.i >= run.hashqty
       THEN run' = [run EXCEPT !.pc = "return"]
     ELSE \E h \in {hash(run.element, 0, run.bitlen, run.fault = run.i)} :
       IF h.panic # NoPanic
         THEN run' = [run EXCEPT !.pc = "panicked", !.panic = h.panic]
       ELSE IF h.err # NilErr
         THEN run' = [run EXCEPT !.pos[run.i + 1] = h.v, !.err = h.err,
                                 !.pc = "return"]
       ELSE run' = [run EXCEPT !.pos[run.i + 1] = h.v, !.i = (@ + 1) % 256]
  /\ UNCHANGED <<status, bf, added, last, procs, raced, calls>>

\* one turn of the loop of bitpositions: the test i < hashqty, and
\* pos[i], err = hash(b, bitlen) with the break or the i++ of a byte; the
\* return when the loop ends
IterBitpositions ==
  /\ run.fn = "bitpositions" /\ run.pc = "loop"
  /\ IF run.i >= run.hashqty
       THEN run' = [run EXCEPT !.pc = "return"]
     ELSE \E h \in {hash(run.element, run.i, run.bitlen, run.fault = run.i)} :
       IF h.panic # NoPanic
         THEN run' = [run EXCEPT !.pc = "panicked", !.panic = h.panic]
       ELSE IF h.err # NilErr
         THEN run' = [run EXCEPT !.pos[run.i + 1] = h.v, !.err = h.err,
                                 !.pc = "return"]
       ELSE run' = [run EXCEPT !.pos[run.i + 1] = h.v, !.i = (@ + 1) % 256]
  /\ UNCHANGED <<status, bf, added, last, procs, raced, calls>>

NextBitpositions ==
  \/ \E element \in Elements, hashqty \in HashQtys, bitlen \in BitLens :
       \E fault \in {NoFault} \cup {i \in 0..MaxFaultIndex : i < hashqty} :
         CallBitpositions(element, hashqty, bitlen, fault)
  \/ IterBitpositions

SpecBitpositions == Init /\ [][NextBitpositions]_vars

(***************************************************************************)
(* The bit addressing on its own: bitlocation called directly, as the      *)
(* tests of the package call it, over the whole range of a uint64.         *)
(***************************************************************************)
\* the positions given to bitlocation: 0, 1, 2, 3, 7, 8, 63, 64, 65535,
\* 65536, 2^31 - 1, 2^31, 41167512252, 2^37, 2^63 - 1, 2^63 and 2^64 - 1
Positions ==
  { <<0, 0, 0, 0>>, <<0, 0, 0, 1>>, <<0, 0, 0, 2>>, <<0, 0, 0, 3>>,
    <<0, 0, 0, 7>>, <<0, 0, 0, 8>>, <<0, 0, 0, 63>>, <<0, 0, 0, 64>>,
    <<0, 0, 0, 65535>>, <<0, 0, 1, 0>>, <<0, 0, 32767, 65535>>,
    <<0, 0, 32768, 0>>, <<0, 9, 38342, 25276>>, <<0, 32, 0, 0>>,
    <<32767, 65535, 65535, 65535>>, <<32768, 0, 0, 0>>,
    <<65535, 65535, 65535, 65535>> }

\* the bucket sizes given to bitlocation (a byte)
BitSizes == {0, 1, 2, 8, 64, 255}

DoBitlocation(p, bitsize, intbits) ==
  /\ \E r \in {bitlocationUint64(p, bitsize, intbits)} :
       run' = [fn |-> "bitlocation", pc |-> "return", p |-> p,
               bitsize |-> bitsize, intbits |-> intbits, index |-> r.index,
               offset |-> r.offset]
  /\ UNCHANGED <<status, bf, added, last, procs, raced, calls>>

NextBitlocation ==
  \E p \in Positions, bitsize \in BitSizes, intbits \in IntSizes :
    DoBitlocation(p, bitsize, intbits)

SpecBitlocation == Init /\ [][NextBitlocation]_vars

(***************************************************************************)
(* Properties of the sequential program.                                   *)
(***************************************************************************)
\* the positions of the bits of a bit store that are 1, as <<word, offset>>
BitsOf(bitstore) ==
  UNION {{<<i, b>> : b \in bitstore[i]} : i \in 1..Len(bitstore)}

Succeeded(call) == call.err = NilErr /\ call.panic = NoPanic

AddOps == {"Add", "MustAdd"}
HasOps == {"Has", "MustHave"}

\* prob in (0, 1)
InOpenUnit(prob) == prob.m > 0 /\ MathLog(prob) < 0

\* prob in (0, 1]
InHalfOpenUnit(prob) == prob.m > 0 /\ MathLog(prob) <= 0

\* C1: no false negatives.  In every reachable state Has answers true for
\* every element whose Add has succeeded, and every successful Has or
\* MustHave of such an element has returned true, whatever was added since.
C1_NoFalseNegatives ==
  /\ \A e \in added :
       LET r == Has(bf, e, NoFault)
       IN  r.ok /\ r.err = NilErr /\ r.panic = NoPanic
  /\ (last.op \in HasOps /\ Succeeded(last) /\ last.element \in added)
       => last.ok

\* a Has of an added element has returned true after a later Add of another
C1_Witness ==
  /\ last.op = "Has" /\ last.ok /\ last.element \in added
  /\ Cardinality(added) >= 2
  /\ bf.hashqty >= 1

\* C2: monotonicity.  No step of New, Add, Has, MustAdd or MustHave clears a
\* bit: the bits that are 1 before a step are 1 after it, so the bits set
\* after a sequence of adds include those set after each of its prefixes.
C2_Monotonic ==
  [][BitsOf(bf.bitstore) \subseteq BitsOf(bf'.bitstore)]_vars

\* two elements have been added and the bits of both are set
C2_Witness ==
  /\ last.op \in AddOps /\ Succeeded(last)
  /\ Cardinality(added) >= 2
  /\ Cardinality(BitsOf(bf.bitstore)) >= 8

\* C3: idempotence.  A successful Add or MustAdd of an element that was
\* added before leaves the bit store as it was.
C3_AddIdempotent ==
  [][(last'.op \in AddOps /\ Succeeded(last') /\ last'.element \in added)
       => bf'.bitstore = bf.bitstore]_vars

\* an element has been added, and adding it again yields the same bit store
C3_Witness ==
  /\ status = "ready"
  /\ last.op = "Add" /\ Succeeded(last) /\ last.element \in added
  /\ BitsOf(bf.bitstore) # {}
  /\ Add(bf, last.element, NoFault).bitstore = bf.bitstore

\* C4: Has is read-only.  A step of Has or MustHave (returning true,
\* returning false or failing) leaves the filter and its bit store as they
\* were, and a step that changes the bit store of a constructed filter is a
\* step of Add or MustAdd.
C4_HasReadOnly ==
  [][/\ last'.op \in HasOps => (bf' = bf /\ added' = added)
     /\ (status = "ready" /\ bf' # bf) => last'.op \in AddOps]_vars

\* a Has has returned false on a filter that holds elements
C4_Witness ==
  /\ last.op = "Has" /\ Succeeded(last) /\ ~last.ok
  /\ added # {}
  /\ BitsOf(bf.bitstore) # {}

\* C5 as stated: New fails with ErrZeroElements when n = 0, with
\* ErrProbability when n > 0 and prob <= 0, returns no filter in both cases,
\* and succeeds in every other case.
C5_Original ==
  last.op = "New" =>
    /\ last.n = 0 =>
         (last.err = ErrZeroElements /\ status = "failed" /\ bf = NilFilter)
    /\ (last.n > 0 /\ LeqZero(last.prob)) =>
         (last.err = ErrProbability /\ status = "failed" /\ bf = NilFilter)
    /\ (last.n > 0 /\ ~LeqZero(last.prob)) =>
         (Succeeded(last) /\ status = "ready")

\* C5 amended: as C5, but New succeeds in every other case only for
\* prob <= 1 (for prob > 1 the optimal length is negative and its conversion
\* to uint64 is implementation-dependent).
C5_NewErrors ==
  last.op = "New" =>
    /\ last.n = 0 =>
         (last.err = ErrZeroElements /\ status = "failed" /\ bf = NilFilter)
    /\ (last.n > 0 /\ LeqZero(last.prob)) =>
         (last.err = ErrProbability /\ status = "failed" /\ bf = NilFilter)
    /\ (last.n > 0 /\ InHalfOpenUnit(last.prob)) =>
         (Succeeded(last) /\ status = "ready" /\ bf.n = last.n
          /\ bf.prob = last.prob)

\* New(0, prob) with prob <= 0 has failed with ErrZeroElements
C5_Witness ==
  /\ last.op = "New" /\ last.n = 0 /\ LeqZero(last.prob)
  /\ last.err = ErrZeroElements
  /\ status = "failed"

C8_Original ==
  /\ (status = "ready" /\ InHalfOpenUnit(bf.prob)) => bf.bitlen > 0
  /\ InHalfOpenUnit(bf.prob) => last.panic # PanicDivide

\* C8 amended: a filter built by New has bitlen > 0 for prob in (0, 1); for
\* prob = 1 it has bitlen = 0 and hashqty = 0; so for prob in (0, 1] no
\* operation on it divides by zero.
C8_BitLenPositive ==
  /\ (status = "ready" /\ InOpenUnit(bf.prob)) => bf.bitlen > 0
  /\ (status = "ready" /\ InHalfOpenUnit(bf.prob) /\ bf.bitlen = 0)
       => (bf.hashqty = 0 /\ MathLog(bf.prob) = 0)
  /\ InHalfOpenUnit(bf.prob) => last.panic # PanicDivide

\* an element has been added to a filter built with prob = 1
C8_Witness ==
  /\ last.op = "Add" /\ Succeeded(last)
  /\ InHalfOpenUnit(bf.prob)
  /\ bf.bitlen = 0

\* C9: the capacity is advisory.  The only error Add returns is a hash
\* failure, and only when the hash fails; on a filter that holds any number
\* of elements a further Add without a hash fault succeeds, and the bit
\* store keeps the length New gave it.
C9_CapacityAdvisory ==
  /\ last.op \in AddOps =>
       /\ last.err \in {NilErr, HashFailure}
       /\ last.err = HashFailure => last.fault # NoFault
       /\ last.panic \in {NoPanic, PanicDivide, HashFailure}
  /\ (status = "ready" /\ InHalfOpenUnit(bf.prob)) =>
       /\ \A e \in Elements :
            LET r == Add(bf, e, NoFault)
            IN  /\ r.err = NilErr /\ r.panic = NoPanic
                /\ Len(r.bitstore) = Len(bf.bitstore)
       /\ Len(bf.bitstore) = MathCeil(bf.bitlen, 64)

\* more distinct elements than the capacity have been added
C9_Witness ==
  /\ last.op = "Add" /\ Succeeded(last)
  /\ Cardinality(added) > bf.n
  /\ bf.hashqty >= 1

\* C11: the panicking variants refine the fallible ones.  A step of MustAdd
\* panics with the hash failure exactly when Add, called in the same state
\* with the same element, returns it, and otherwise leaves the bit store Add
\* leaves; a step of MustHave panics with the hash failure exactly when Has
\* returns it, and otherwise returns the boolean Has returns.
C11_MustRefines ==
  [][/\ last'.op = "MustAdd" =>
          LET r == Add(bf, last'.element, last'.fault)
          IN  /\ (last'.panic = HashFailure) <=> (r.err = HashFailure)
              /\ (status' = "panicked") <=> (r.err # NilErr \/ r.panic # NoPanic)
              /\ r.err = NilErr =>
                   (bf'.bitstore = r.bitstore /\ last'.panic = r.panic)
              /\ r.err # NilErr => bf'.bitstore = bf.bitstore
     /\ last'.op = "MustHave" =>
          LET r == Has(bf, last'.element, last'.fault)
          IN  /\ (last'.panic = HashFailure) <=> (r.err = HashFailure)
              /\ (status' = "panicked") <=> (r.err # NilErr \/ r.panic # NoPanic)
              /\ r.err = NilErr =>
                   (last'.ok = r.ok /\ last'.panic = r.panic)
              /\ bf' = bf]_vars

\* MustAdd has panicked with the hash failure on a filter that holds an
\* element, where MustHave of that element returns true as Has does
C11_Witness ==
  /\ last.op = "MustAdd" /\ last.panic = HashFailure
  /\ status = "panicked"
  /\ added # {} /\ last.element \notin added
  /\ \A e \in added :
       /\ MustHave(bf, e, NoFault).ok
       /\ MustHave(bf, e, NoFault).panic = NoPanic
       /\ Has(bf, e, NoFault).err = NilErr

\* 16^e mod m
RECURSIVE Pow16Mod(_, _)
Pow16Mod(e, m) == IF e = 0 THEN 1 % m ELSE (Pow16Mod(e - 1, m) * 16) % m

\* the number written by the first k of 16 hex digits, mod m, as the sum of
\* digit * 16^place
RECURSIVE DigitSumMod(_, _, _)
DigitSumMod(digits, k, m) ==
  IF k = 0 THEN 0
  ELSE (DigitSumMod(digits, k - 1, m) + digits[k] * Pow16Mod(16 - k, m)) % m

\* the 64-bit number of the digest of element followed by the byte i, mod m
Digest64Mod(element, i, m) == DigitSumMod(SHA256Hex16[element][i + 1], 16, m)

\* the set of the hashqty positions derived for element on filter f
DerivedPositions(f, element) ==
  {Digest64Mod(element, i, f.bitlen) : i \in 0..(f.hashqty - 1)}

\* the bit that holds logical position p: bit p mod 64 of word p div 64
BitAt(p) == <<p \div 64 + 1, p % 64>>

\* C12: exact effect of add.  A successful step of Add or MustAdd leaves the
\* bits that were 1 and the bits at the hashqty positions derived for its
\* element 1 and every other bit 0, and keeps the number of words; on the
\* zeroed store of a filter with hashqty 4 and bitlen 48, Add("test") leaves
\* exactly bits 7, 32, 36 and 37 of the one word set.
C12_AddExactEffect ==
  [][(last'.op \in AddOps /\ Succeeded(last')) =>
       /\ BitsOf(bf'.bitstore) =
            BitsOf(bf.bitstore)
              \cup {BitAt(p) : p \in DerivedPositions(bf, last'.element)}
       /\ Len(bf'.bitstore) = Len(bf.bitstore)
       /\ (bf.hashqty = 4 /\ bf.bitlen = 48 /\ BitsOf(bf.bitstore) = {}
           /\ last'.element = "test")
            => bf'.bitstore = <<{7, 32, 36, 37}>>]_vars

\* "test" has been added to the zeroed store of a filter with hashqty 4 and
\* bitlen 48, and bits 7, 32, 36 and 37 are the bits set
C12_Witness ==
  /\ last.op = "Add" /\ Succeeded(last) /\ last.element = "test"
  /\ bf.hashqty = 4 /\ bf.bitlen = 48
  /\ added = {"test"}
  /\ bf.bitstore = <<{7, 32, 36, 37}>>

\* C13: result of has.  A successful step of Has or MustHave returns true
\* exactly when the bit at every one of the hashqty positions derived for
\* its element is 1 (so false when one of them is 0); on a filter with
\* hashqty 0 it returns true for every element, and a successful step of Add
\* changes nothing.
C13_HasResult ==
  [][/\ (last'.op \in HasOps /\ Succeeded(last')) =>
          /\ last'.ok =
               (\A p \in DerivedPositions(bf, last'.element) :
                  BitAt(p) \in BitsOf(bf.bitstore))
          /\ bf.hashqty = 0 => last'.ok
     /\ (last'.op \in AddOps /\ Succeeded(last') /\ bf.hashqty = 0)
          => bf' = bf]_vars

\* a Has has returned false for an element whose first position is set and
\* another is clear
C13_Witness ==
  /\ last.op = "Has" /\ Succeeded(last) /\ ~last.ok
  /\ bf.hashqty >= 2
  /\ BitAt(Digest64Mod(last.element, 0, bf.bitlen)) \in BitsOf(bf.bitstore)
  /\ \E p \in DerivedPositions(bf, last.element) :
       BitAt(p) \notin BitsOf(bf.bitstore)

\* C15: structural invariant.  On a filter built by New, every step of
\* Add, Has, MustAdd or MustHave keeps n, prob, bitlen, hashqty and the
\* number of words; bitlen and hashqty are the optimal values of n and prob,
\* the number of words is ceil(bitlen / 64) (1 word for bitlen 10 and 58, 2
\* words for bitlen 68), and New returns every word zero.
C15_Structure ==
  /\ [](status = "ready" =>
          /\ Len(bf.bitstore) = MathCeil(bf.bitlen, 64)
          /\ bf.hashqty = optimalHashQty(bf.prob)
          /\ \E arch \in Archs : bf.bitlen = optimalBitLen(bf.n, bf.prob, arch)
          /\ bf.prob = Prob(1, -2) =>
               /\ bf.hashqty = 7
               /\ bf.n = 1 => (bf.bitlen = 10 /\ Len(bf.bitstore) = 1)
               /\ bf.n = 6 => (bf.bitlen = 58 /\ Len(bf.bitstore) = 1)
               /\ bf.n = 7 => (bf.bitlen = 68 /\ Len(bf.bitstore) = 2))
  /\ []((last.op = "New" /\ status = "ready") =>
          \A k \in 1..Len(bf.bitstore) : bf.bitstore[k] = {})
  /\ [][status = "ready" =>
          /\ bf'.n = bf.n /\ bf'.prob = bf.prob
          /\ bf'.bitlen = bf.bitlen /\ bf'.hashqty = bf.hashqty
          /\ Len(bf'.bitstore) = Len(bf.bitstore)]_vars

\* elements have been added to and looked up in a filter of 68 bits, which
\* still has its 2 words
C15_Witness ==
  /\ last.op \in HasOps /\ Succeeded(last)
  /\ Cardinality(added) >= 2
  /\ bf.bitlen = 68 /\ bf.hashqty = 7 /\ Len(bf.bitstore) = 2

\* C16: the accesses of the bit store are in bounds.  On every filter built
\* by New and for every element, each position that Add and Has derive has
\* a word index below the number of words and a bit offset below 64, no
\* operation panics with an index out of range, and no bit at a logical
\* position >= bitlen is ever set.
C16_InBounds ==
  /\ status = "ready" =>
       \A e \in Elements :
         LET r == bitpositions(e, bf.hashqty, bf.bitlen, NoFault)
         IN  r.panic = NoPanic =>
               \A k \in 1..Len(r.pos) :
                 LET loc == bitlocation(r.pos[k], 64)
                 IN  /\ 0 <= loc.index /\ loc.index < Len(bf.bitstore)
                     /\ 0 <= loc.offset /\ loc.offset < 64
  /\ last.panic # PanicIndex
  /\ \A b \in BitsOf(bf.bitstore) : (b[1] - 1) * 64 + b[2] < bf.bitlen

\* an Add has set a bit in the last, partly used word of a filter of
\* several words
C16_Witness ==
  /\ last.op = "Add" /\ Succeeded(last)
  /\ Len(bf.bitstore) >= 2 /\ bf.bitlen % 64 # 0
  /\ bf.bitstore[Len(bf.bitstore)] # {}

\* the bits that are 1 are exactly those at the positions derived for the
\* elements added so far
AbstractSetRefined ==
  BitsOf(bf.bitstore) =
    UNION {{BitAt(p) : p \in DerivedPositions(bf, e)} : e \in added}

\* C17 as stated: the filter refines the set of the added elements, and a
\* filter just built by New with hashqty >= 1 answers Has(e) = false for
\* every element.
C17_Original ==
  /\ AbstractSetRefined
  /\ (last.op = "New" /\ status = "ready" /\ bf.hashqty >= 1) =>
       \A e \in Elements :
         LET r == Has(bf, e, NoFault)
         IN  r.err = NilErr /\ r.panic = NoPanic /\ ~r.ok

\* C18: Add is all-or-nothing on failure.  A step of Add that returns the
\* hash failure, whatever the index it occurs at, and a step of MustAdd that
\* panics with it, leave the filter and the set of added elements as they
\* were; a step of Has that returns it returns false with it.
C18_AddAllOrNothing ==
  [][/\ (last'.op = "Add" /\ last'.err = HashFailure) =>
          (bf' = bf /\ added' = added /\ status' = "ready")
     /\ (last'.op = "MustAdd" /\ last'.panic = HashFailure) =>
          (bf' = bf /\ added' = added)
     /\ (last'.op = "Has" /\ last'.err = HashFailure) =>
          (~last'.ok /\ bf' = bf /\ status' = "ready")
     /\ (last'.op \in AddOps \cup HasOps /\ last'.fault # NoFault) =>
          ~Succeeded(last')]_vars

\* an Add has failed at index 1, after index 0 was hashed, and the bit of
\* index 0 is not set
C18_Witness ==
  /\ last.op = "Add" /\ last.err = HashFailure /\ last.fault = 1
  /\ added # {} /\ last.element \notin added
  /\ status = "ready"
  /\ BitAt(Digest64Mod(last.element, 0, bf.bitlen)) \notin BitsOf(bf.bitstore)

\* C19 as stated: for prob in (0, 1] hashqty is ceil(-ln(prob) / ln(2))
\* clamped to 0..255 (4 for 0.1, 7 for 0.01), whatever n is.
C19_Original ==
  (status = "ready" /\ InHalfOpenUnit(bf.prob)) =>
    LET qty == MathCeil(-MathLog(bf.prob), MathLog(Prob(2, 0)))
    IN  /\ bf.hashqty = IF qty > 255 THEN 255 ELSE qty
        /\ bf.prob = Prob(1, -1) => bf.hashqty = 4
        /\ bf.prob = Prob(1, -2) => bf.hashqty = 7

(***************************************************************************)
(* Properties of the position derivation.                                  *)
(***************************************************************************)
\* C14: bitpositions with bitlen > 0 never panics, its byte counter goes up
\* by one at each turn and never passes hashqty (so the loop ends, also for
\* hashqty 255), and when no hash step fails it returns exactly hashqty
\* positions in index order, the one of index i being the 64-bit number of
\* the digest of the element followed by the byte i, mod bitlen, which is in
\* 0..bitlen-1 (7, 36, 32, 37 for "test", 4, 48); it is the sequence that
\* the bitpositions of Add and Has returns.
C14_Bitpositions ==
  /\ []((run.fn = "bitpositions" /\ run.bitlen > 0) =>
          /\ run.panic = NoPanic /\ run.pc # "panicked"
          /\ run.i <= run.hashqty
          /\ Len(run.pos) = run.hashqty
          /\ (run.pc = "return" /\ run.err = NilErr) =>
               /\ run.i = run.hashqty
               /\ \A k \in 1..run.hashqty :
                    /\ run.pos[k] =
                         Digest64Mod(run.element, k - 1, run.bitlen)
                    /\ 0 <= run.pos[k] /\ run.pos[k] < run.bitlen
               /\ (run.element = "test" /\ run.hashqty = 4
                   /\ run.bitlen = 48) => run.pos = <<7, 36, 32, 37>>
          /\ (run.pc = "return" /\ run.hashqty <= 7) =>
               LET r == bitpositions(run.element, run.hashqty, run.bitlen,
                                     run.fault)
               IN  r.pos = run.pos /\ r.err = run.err)
  /\ [][(run.fn = "bitpositions" /\ run.pc = "loop" /\ run'.pc = "loop")
          => run'.i = run.i + 1]_vars

\* bitpositions has returned 255 positions
C14_Witness ==
  /\ run.fn = "bitpositions" /\ run.pc = "return" /\ run.err = NilErr
  /\ run.hashqty = 255 /\ run.bitlen = 68
  /\ Len(run.pos) = 255
  /\ run.pos[255] = Digest64Mod(run.element, 254, 68)

\* C20 as stated: on a hash failure at index i, bitpositions returns the
\* failure with the i positions of the indices 0..i-1 only.
C20_Original ==
  (run.fn = "bitpositions" /\ run.pc = "return" /\ run.err # NilErr) =>
    /\ Len(run.pos) = run.fault
    /\ \A k \in 1..run.fault :
         run.pos[k] = Digest64Mod(run.element, k - 1, run.bitlen)

\* C20 amended: on a hash failure at index i, bitpositions returns the
\* failure with a sequence of length hashqty, whose first i entries are the
\* positions of the indices 0..i-1 and whose other entries are 0; the loop
\* stops at index i, so no position of a later index is computed.
C20_PositionsOnFailure ==
  (run.fn = "bitpositions" /\ run.err # NilErr) =>
    /\ run.pc = "return"
    /\ run.err = HashFailure
    /\ run.i = run.fault
    /\ Len(run.pos) = run.hashqty
    /\ \A k \in 1..run.hashqty :
         run.pos[k] = IF k <= run.fault
                        THEN Digest64Mod(run.element, k - 1, run.bitlen)
                      ELSE 0

\* bitpositions has failed at index 1 of 4, with the position of index 0
\* computed
C20_Witness ==
  /\ run.fn = "bitpositions" /\ run.pc = "return"
  /\ run.err = HashFailure /\ run.fault = 1 /\ run.hashqty = 4
  /\ run.bitlen = 48 /\ run.element = "test"
  /\ run.pos = <<7, 0, 0, 0>>

(***************************************************************************)
(* Properties of the bit addressing.                                       *)
(***************************************************************************)
\* a * d + b as five limbs, for d < 2^8 and b < 2^8
TimesPlus(a, d, b) ==
  LET c4 == a[4] * d + b
      c3 == a[3] * d + c4 \div Limb
      c2 == a[2] * d + c3 \div Limb
      c1 == a[1] * d + c2 \div Limb
  IN  <<c1 \div Limb, c1 % Limb, c2 % Limb, c3 % Limb, c4 % Limb>>

\* a < b for two uint64
LessUint64(a, b) ==
  \E k \in 1..4 : a[k] < b[k] /\ \A j \in 1..(k - 1) : a[j] = b[j]

\* p div w is below 2^(intbits - 1), that is p < w * 2^(intbits - 1)
IndexFits(p, w, intbits) ==
  IF intbits = 64
    THEN w >= 2 \/ p[1] < Limb \div 2
  ELSE LessUint64(p, <<0, (w * (Limb \div 2)) \div Limb,
                       (w * (Limb \div 2)) % Limb, 0>>)

\* the bucket size bitlocation works with
BucketSize(bitsize) == IF bitsize = 0 THEN 8 ELSE bitsize

\* the index returned is p div w and the offset p - index * w: the index is
\* not negative, the offset is in 0..w-1, index * w + offset is p, and for
\* p below 2^31 they are the quotient and the remainder of the numbers
IsQuotientAndRemainder(r) ==
  LET w == BucketSize(r.bitsize)
  IN  /\ ~r.index.negative
      /\ 0 <= r.offset /\ r.offset < w
      /\ TimesPlus(r.index.bits, w, r.offset) = <<0>> \o r.p
      /\ (r.p[1] = 0 /\ r.p[2] = 0 /\ r.p[3] < Limb \div 2) =>
           /\ r.index.bits[1] = 0 /\ r.index.bits[2] = 0
           /\ ValueOf(r.index.bits) = ValueOf(r.p) \div w
           /\ r.offset = ValueOf(r.p) - (ValueOf(r.p) \div w) * w
           /\ bitlocation(ValueOf(r.p), r.bitsize) =
                [index |-> ValueOf(r.index.bits), offset |-> r.offset]

\* bitlocation(63, 64) = (0, 63), bitlocation(64, 64) = (1, 0),
\* bitlocation(8, 0) = (1, 0), bitlocation(41167512252, 2) = (20583756126, 0)
BitlocationExamples(r) ==
  /\ (r.p = <<0, 0, 0, 63>> /\ r.bitsize = 64) =>
       (r.index.bits = <<0, 0, 0, 0>> /\ r.offset = 63)
  /\ (r.p = <<0, 0, 0, 64>> /\ r.bitsize = 64) =>
       (r.index.bits = <<0, 0, 0, 1>> /\ r.offset = 0)
  /\ (r.p = <<0, 0, 0, 8>> /\ r.bitsize = 0) =>
       (r.index.bits = <<0, 0, 0, 1>> /\ r.offset = 0)
  /\ (r.p = <<0, 9, 38342, 25276>> /\ r.bitsize = 2 /\ r.intbits = 64) =>
       (r.index.bits = <<0, 4, 51939, 12638>> /\ r.offset = 0)

Lost == {e \in added : ~Has(bf, e, NoFault).ok}

\* C6: unsynchronised concurrent adds race.  A bit of an added element is
\* lost, and the word an Add loaded is stale when it stores it, only after
\* two calls of Add have overlapped; the witness is the lost update itself.
C6_LostOnlyByRace ==
  /\ Lost # {} => raced
  /\ \A g \in Goroutines :
       (procs[g].pc = "store"
        /\ procs[g].word #
             bf.bitstore[bitlocation(procs[g].pos[procs[g].k], 64).index + 1])
         => raced

\* two goroutines have each added one element, both calls have returned
\* nil, a bit of one of the two elements is 0 and Has of it returns false
C6_Witness ==
  /\ calls = 2
  /\ \A g \in Goroutines : procs[g].op = "Add" /\ procs[g].pc = "done"
  /\ procs[1].element # procs[2].element
  /\ added = {procs[1].element, procs[2].element}
  /\ \E e \in added :
       LET r == Has(bf, e, NoFault)
       IN  ~r.ok /\ r.err = NilErr /\ r.panic = NoPanic

\* C10: concurrent queries are safe.  A Has during which no Add ran returns
\* what Has returns when run alone on the bit store it was called on, and
\* while it runs the bit store stays as it was at the call.
C10_ConcurrentHasSafe ==
  /\ [](\A g \in Goroutines :
          (procs[g].op = "Has" /\ procs[g].pc = "done"
           /\ ~procs[g].overlapped)
            => procs[g].ok =
                 Has([bf EXCEPT !.bitstore = procs[g].pre],
                     procs[g].element, NoFault).ok)
  /\ [][\A g \in Goroutines :
          (procs[g].pc = "test" /\ ~procs'[g].overlapped)
            => bf'.bitstore = procs[g].pre]_vars

\* two calls of Has run at once on a filter that holds an element, and each
\* has found a bit set
C10_Witness ==
  /\ added # {}
  /\ \A g \in Goroutines :
       /\ procs[g].op = "Has" /\ procs[g].pc = "test"
       /\ procs[g].k >= 2
       /\ ~procs[g].overlapped

====
